---- MODULE Spec2Model ----
(***************************************************************************)
(* Message-sourcing pipeline of mood-lifter-hooks:                         *)
(*   - APIClient (lib/api_integrations.py): TTL cache in memory, mirrored  *)
(*     to one file per key in persistent mode, and get/post that turn      *)
(*     every request failure into None;                                    *)
(*   - RateLimiter (lib/rate_limiter.py): last-shown timestamps and the    *)
(*     cooldown test;                                                      *)
(*   - generate_message (lib/message_generator.py): gate, source           *)
(*     selection, provider call, fallback tables, formatting.              *)
(* Time is counted in whole minutes (the unit of cache_ttl_minutes and of  *)
(* cooldown_minutes).  Every handler runs at one clock value.              *)
(***************************************************************************)
EXTENDS Integers, Sequences, FiniteSets, TLC

VARIABLES
  now,                \* datetime.now(), in clock ticks (one tick is a minute;
                      \* 1/TicksPerMinute minute where the state file is followed)
  op,                 \* the call that produced the current state
  result,             \* what that call returned
  raised,             \* the exception that escaped that call, or "none"
  cache,              \* APIClient._cache : cache_key -> CacheEntry
  disk,               \* the *.cache files of cache_dir : cache_key -> file
  persistent_cache,   \* APIClient.persistent_cache
  cache_ttl_minutes,  \* APIClient.cache_ttl_minutes
  stored,             \* history: per key, the latest _add_to_cache not cleared since
  rl_state,           \* RateLimiter._state : key -> timestamp
  last_mark,          \* history: per content type, time of the latest mark_shown
  state_file,         \* the file at RateLimiter.state_file
  config,             \* the configuration snapshot (lib/config.py)
  gm,                 \* the latest generate_message call: inputs, path, outcome
  last_jw,            \* history: time of the latest call that returned jw content
  inv,                \* concurrent hook invocations: each one's position and objects
  hook,               \* the running hook script: stdin, stdout, stderr, exit status
  last_run            \* the file ~/.claude/debug/stop_hook_last_run

vars == <<now, op, result, raised, cache, disk, persistent_cache,
          cache_ttl_minutes, stored, rl_state, last_mark, state_file,
          config, gm, last_jw, inv, hook, last_run>>

cacheVars == <<cache, disk, persistent_cache, cache_ttl_minutes, stored>>
rlVars    == <<rl_state, last_mark, state_file>>
genVars   == <<config, gm, last_jw>>
hookVars  == <<inv, hook, last_run>>

-----------------------------------------------------------------------------
(* Bounds of the model *)

MaxTime     == 3
MaxTTL      == 2
MaxCooldown == 2

\* Python's None, as a return value and as JSON null
None == "None"

Urls       == {"u1"}
\* query parameters in json.dumps(sort_keys=True) form; "" is params=None
ParamForms == {"", "a=1"}
\* parsed response bodies; None is the JSON document null
Data       == {"d1", "d2", None}

-----------------------------------------------------------------------------
(* Python dictionaries *)

EmptyDict == [x \in {} |-> None]

DictSet(d, k, v) == [x \in (DOMAIN d) \cup {k} |-> IF x = k THEN v ELSE d[x]]

DictDel(d, k) == [x \in (DOMAIN d) \ {k} |-> d[x]]

-----------------------------------------------------------------------------
(* CacheEntry and the cache of APIClient *)

CacheEntry(data, expires_at) ==
  [kind |-> "entry", data |-> data, expires_at |-> expires_at]

is_expired_late(entry, t) == t > entry.expires_at + 1

\* CacheEntry.is_expired: datetime.now() > self.expires_at
is_expired(entry, t) == t > entry.expires_at

\* hashlib.md5 of url + json.dumps(params, sort_keys=True); md5 taken as injective
_get_cache_key(url, params) == <<url, params>>

CacheKeys == {_get_cache_key(u, p) : u \in Urls, p \in ParamForms}

\* pickle.load(f) of a cache file: the exception it raises, "none" for a CacheEntry
PickleLoad(file) ==
  CASE file.kind = "entry"     -> "none"
    [] file.kind = "garbage"   -> "UnpicklingError"
    [] file.kind = "truncated" -> "EOFError"

\* except (pickle.PickleError, IOError): pass
CacheIOCaught(exc) == exc \in {"UnpicklingError", "IOError"}

\* What a cache operation hands back: the new memory map, the new files, the
\* return value and the exception that escaped.
CacheOut(c, d, ret, exc) == [cache |-> c, disk |-> d, ret |-> ret, raised |-> exc]

\* APIClient._save_persistent_cache: rewrite the file of every unexpired memory
\* entry; F is the set of keys whose file operation raises IOError in this call.
_save_persistent_cache(c, d, t, F, persistent) ==
  IF ~persistent THEN d
  ELSE LET written == {k \in DOMAIN c : ~is_expired(c[k], t) /\ k \notin F}
       IN [k \in (DOMAIN d) \cup written |-> IF k \in written THEN c[k] ELSE d[k]]

_get_from_cache_keeps_file(c, d, key, t, F, persistent) ==
  LET expired == key \in DOMAIN c /\ is_expired(c[key], t)
      c1 == IF expired THEN DictDel(c, key) ELSE c
  IN IF key \in DOMAIN c /\ ~expired THEN CacheOut(c, d, c[key].data, "none")
     ELSE CacheOut(c1, d, None, "none")

\* APIClient._get_from_cache
_get_from_cache(c, d, key, t, F, persistent) ==
  LET inMem   == key \in DOMAIN c
      expired == inMem /\ is_expired(c[key], t)
      c1 == IF expired THEN DictDel(c, key) ELSE c
      d1 == IF expired THEN _save_persistent_cache(c1, d, t, F, persistent) ELSE d
  IN IF inMem /\ ~expired THEN CacheOut(c, d, c[key].data, "none")
     ELSE IF persistent /\ key \in DOMAIN d1
       THEN IF key \in F THEN CacheOut(c1, d1, None, "none")  \* IOError, swallowed
            ELSE LET exc == PickleLoad(d1[key])
                 IN IF exc # "none"
                      THEN CacheOut(c1, d1, None, IF CacheIOCaught(exc) THEN "none" ELSE exc)
                    ELSE IF ~is_expired(d1[key], t)
                      THEN CacheOut(DictSet(c1, key, d1[key]), d1, d1[key].data, "none")
                    ELSE CacheOut(c1, DictDel(d1, key), None, "none")  \* unlink
     ELSE CacheOut(c1, d1, None, "none")

\* APIClient._add_to_cache
_add_to_cache(c, d, key, data, t, ttl, F, persistent) ==
  LET entry == CacheEntry(data, t + ttl)
  IN CacheOut(DictSet(c, key, entry),
              IF persistent /\ key \notin F THEN DictSet(d, key, entry) ELSE d,
              None, "none")

\* clear_cache that empties the memory map only
clear_cache_memory_only(c, d, F, persistent) == CacheOut(EmptyDict, d, None, "none")

\* APIClient.clear_cache
clear_cache(c, d, F, persistent) ==
  CacheOut(EmptyDict,
           IF persistent THEN [k \in (DOMAIN d) \cap F |-> d[k]] ELSE d,
           None, "none")

-----------------------------------------------------------------------------
(* APIClient.get and APIClient.post *)

\* What session.get / session.post and raise_for_status can raise: the three
\* requests exceptions the handlers name, and RetryError (retries exhausted on
\* a status of the force list) standing for every other exception.
TransportExceptions == {"Timeout", "ConnectionError", "HTTPError", "RetryError"}

\* One transport exchange: a parsed JSON body, a body that is not JSON
\* (returned as text), or an exception.
TransportOutcomes ==
  [kind : {"json"}, data : Data] \cup
  [kind : {"text"}, data : {"d1"}] \cup
  [kind : {"raise"}, data : TransportExceptions]

\* isinstance(exc, cls) for the classes above: all derive from Exception
IsInstance(exc, cls) == cls = exc \/ cls = "Exception"

RequestExceptClausesNoCatchAll == <<"Timeout", "ConnectionError", "HTTPError">>

\* the except clauses that close the try block of get and of post
RequestExceptClauses == <<"Timeout", "ConnectionError", "HTTPError", "Exception">>

\* the exception that leaves a try block with these clauses
Escapes(exc, clauses) ==
  IF \E i \in DOMAIN clauses : IsInstance(exc, clauses[i]) THEN "none" ELSE exc

GetOut(c, d, ret, exc, sent) ==
  [cache |-> c, disk |-> d, ret |-> ret, raised |-> exc, sent |-> sent]

get_ignores_cache(c, d, key, use_cache, out, t, ttl, F, persistent) ==
  IF out.kind = "raise"
    THEN GetOut(c, d, None, Escapes(out.data, RequestExceptClauses), TRUE)
  ELSE LET st == IF use_cache
                   THEN _add_to_cache(c, d, key, out.data, t, ttl, F, persistent)
                 ELSE CacheOut(c, d, None, "none")
       IN GetOut(st.cache, st.disk, out.data, "none", TRUE)

\* a get that stores the response whatever use_cache says
get_always_stores(c, d, key, use_cache, out, t, ttl, F, persistent) ==
  LET look == IF use_cache THEN _get_from_cache(c, d, key, t, F, persistent)
              ELSE CacheOut(c, d, None, "none")
  IN IF look.raised # "none"
       THEN GetOut(look.cache, look.disk, None, look.raised, FALSE)
     ELSE IF use_cache /\ look.ret # None
       THEN GetOut(look.cache, look.disk, look.ret, "none", FALSE)
     ELSE IF out.kind = "raise"
       THEN GetOut(look.cache, look.disk, None,
                   Escapes(out.data, RequestExceptClauses), TRUE)
     ELSE LET st == _add_to_cache(look.cache, look.disk, key, out.data,
                                  t, ttl, F, persistent)
          IN GetOut(st.cache, st.disk, out.data, "none", TRUE)

\* APIClient.get; key is _get_cache_key(full_url, params), out the outcome of
\* the transport exchange if one is made
get(c, d, key, use_cache, out, t, ttl, F, persistent) ==
  LET look == IF use_cache THEN _get_from_cache(c, d, key, t, F, persistent)
              ELSE CacheOut(c, d, None, "none")
  IN IF look.raised # "none"
       THEN GetOut(look.cache, look.disk, None, look.raised, FALSE)
     ELSE IF use_cache /\ look.ret # None
       THEN GetOut(look.cache, look.disk, look.ret, "none", FALSE)
     ELSE IF out.kind = "raise"
       THEN GetOut(look.cache, look.disk, None,
                   Escapes(out.data, RequestExceptClauses), TRUE)
     ELSE LET st == IF use_cache
                      THEN _add_to_cache(look.cache, look.disk, key, out.data,
                                         t, ttl, F, persistent)
                    ELSE look
          IN GetOut(st.cache, st.disk, out.data, "none", TRUE)

\* APIClient.post
post(out) ==
  IF out.kind = "raise"
    THEN [ret |-> None, raised |-> Escapes(out.data, RequestExceptClauses)]
  ELSE [ret |-> out.data, raised |-> "none"]

-----------------------------------------------------------------------------
(* The clock, in minutes.  A hook process is over well within a minute, so a  *)
(* pending generate_message call ends before the clock moves.                *)

Tick ==
  /\ now < MaxTime
  /\ op.name # "generate_message"
  /\ now' = now + 1
  /\ op' = [name |-> "tick"]
  /\ UNCHANGED <<hookVars, result, raised, cacheVars, rlVars, genVars>>

-----------------------------------------------------------------------------
(* Operations of one APIClient *)

NoStore == [at |-> -1, data |-> None]

\* test_cache_operations calls _add_to_cache directly
AddToCache(key, data, F) ==
  LET o == _add_to_cache(cache, disk, key, data, now, cache_ttl_minutes, F,
                         persistent_cache)
  IN /\ cache' = o.cache
     /\ disk' = o.disk
     /\ result' = o.ret
     /\ raised' = o.raised
     /\ stored' = [stored EXCEPT ![key] = [at |-> now, data |-> data]]
     /\ op' = [name |-> "_add_to_cache", key |-> key]
     /\ UNCHANGED <<hookVars, now, persistent_cache, cache_ttl_minutes, rlVars, genVars>>

GetFromCache(key, F) ==
  LET o == _get_from_cache(cache, disk, key, now, F, persistent_cache)
  IN /\ cache' = o.cache
     /\ disk' = o.disk
     /\ result' = o.ret
     /\ raised' = o.raised
     /\ op' = [name |-> "_get_from_cache", key |-> key]
     /\ UNCHANGED <<hookVars, now, persistent_cache, cache_ttl_minutes, stored,
                    rlVars, genVars>>

ClearCache(F) ==
  LET o == clear_cache(cache, disk, F, persistent_cache)
  IN /\ cache' = o.cache
     /\ disk' = o.disk
     /\ result' = o.ret
     /\ raised' = o.raised
     \* an entry whose file could not be deleted is still stored on disk
     /\ stored' = [k \in CacheKeys |->
                     IF persistent_cache /\ k \in DOMAIN o.disk
                       THEN stored[k] ELSE NoStore]
     /\ op' = [name |-> "clear_cache", F |-> F,
               cleared |-> (DOMAIN cache) \cup (DOMAIN disk)]
     /\ UNCHANGED <<hookVars, now, persistent_cache, cache_ttl_minutes, rlVars, genVars>>

Get(url, params, use_cache, out, F) ==
  LET key == _get_cache_key(url, params)
      o == get(cache, disk, key, use_cache, out, now, cache_ttl_minutes, F,
               persistent_cache)
  IN /\ cache' = o.cache
     /\ disk' = o.disk
     /\ result' = o.ret
     /\ raised' = o.raised
     /\ stored' = IF o.sent /\ use_cache /\ out.kind # "raise"
                    THEN [stored EXCEPT ![key] = [at |-> now, data |-> out.data]]
                  ELSE stored
     /\ op' = [name |-> "get", key |-> key, use_cache |-> use_cache, sent |-> o.sent,
               failure |-> IF o.sent /\ out.kind = "raise" THEN out.data ELSE "none"]
     /\ UNCHANGED <<hookVars, now, persistent_cache, cache_ttl_minutes, rlVars, genVars>>

Post(out) ==
  LET o == post(out)
  IN /\ result' = o.ret
     /\ raised' = o.raised
     /\ op' = [name |-> "post", sent |-> TRUE,
               failure |-> IF out.kind = "raise" THEN out.data ELSE "none"]
     /\ UNCHANGED <<hookVars, now, cache, disk, persistent_cache, cache_ttl_minutes, stored,
                    rlVars, genVars>>

-----------------------------------------------------------------------------
(* RateLimiter *)

ContentTypes == {"jw_daily_text", "other"}

\* f"last_shown_{content_type}"
last_shown_key(content_type) == <<"last_shown", content_type>>

\* a value of _state: a datetime, or what a state file entry that is no
\* ISO-8601 string loads as
Timestamp(t) == [kind |-> "datetime", t |-> t]
InvalidTimestamp == [kind |-> "invalid", t |-> 0]

should_show_strict(state, content_type, cooldown_minutes, t) ==
  LET key == last_shown_key(content_type)
  IN IF key \notin DOMAIN state THEN TRUE
     ELSE IF state[key].kind # "datetime" THEN TRUE
     ELSE t - state[key].t > cooldown_minutes

\* RateLimiter.should_show
should_show(state, content_type, cooldown_minutes, t) ==
  LET key == last_shown_key(content_type)
  IN IF key \notin DOMAIN state THEN TRUE
     ELSE IF state[key].kind # "datetime" THEN TRUE
     ELSE t - state[key].t >= cooldown_minutes

\* RateLimiter.mark_shown (the new _state; _save_state writes it out)
mark_shown(state, content_type, t) ==
  DictSet(state, last_shown_key(content_type), Timestamp(t))

ShouldShow(content_type, cooldown_minutes) ==
  /\ result' = should_show(rl_state, content_type, cooldown_minutes, now)
  /\ raised' = "none"
  /\ op' = [name |-> "should_show", content_type |-> content_type,
            cooldown_minutes |-> cooldown_minutes]
  /\ UNCHANGED <<hookVars, now, cacheVars, rlVars, genVars>>

\* what a state file holds: nothing (no file), bytes that are no JSON text,
\* bytes that are no UTF-8 text, a JSON document that is no object (a number,
\* null, a string or list with elements), the JSON document [] (or ""), or a
\* JSON object
StateFile(kind, data) == [kind |-> kind, data |-> data]
NoStateFile == StateFile("missing", EmptyDict)

\* the _state of a limiter whose file held []: a container that has no
\* entry and is no dict
EmptyList == [x \in {<<"[]", "">>} |-> InvalidTimestamp]
IsDict(state) == state # EmptyList

\* a value of a JSON object of the file: the isoformat() string of a naive
\* datetime, or any other value
IsoString(t) == [kind |-> "iso", t |-> t]

\* datetime.fromisoformat(v) under "if isinstance(v, str)" and
\* except (ValueError, TypeError): pass
fromisoformat(v) == IF v.kind = "iso" THEN Timestamp(v.t) ELSE v

\* a conversion whose output fromisoformat rejects
isoformat_unparsable(v) == IF v.kind = "datetime" THEN InvalidTimestamp ELSE v

\* value.isoformat() under "if isinstance(value, datetime)"
isoformat(v) == IF v.kind = "datetime" THEN IsoString(v.t) ELSE v

\* RateLimiter._load_state: the _state of a new RateLimiter, or the
\* exception that leaves the constructor
_load_state(file) ==
  CASE file.kind = "missing" -> [raised |-> "none", state |-> EmptyDict]
    [] file.kind = "garbage" -> [raised |-> "none", state |-> EmptyDict]
    [] file.kind = "undecodable" ->
         [raised |-> "UnicodeDecodeError", state |-> EmptyDict]
    [] file.kind = "scalar" -> [raised |-> "TypeError", state |-> EmptyDict]
    [] file.kind = "empty_list" -> [raised |-> "none", state |-> EmptyList]
    [] file.kind = "dict" ->
         [raised |-> "none",
          state |-> [k \in DOMAIN file.data |-> fromisoformat(file.data[k])]]

\* how a write goes: done, open() raises IOError, or json.dump raises it
\* after open() emptied the file
WriteOutcomes == {"written", "open_fails", "dump_fails"}

\* RateLimiter._save_state: the file afterwards; IOError is swallowed, the
\* AttributeError of self._state.items() on a list is not
_save_state(state, file, w) ==
  IF ~IsDict(state) THEN [raised |-> "AttributeError", file |-> file]
  ELSE
  [raised |-> "none",
   file |-> CASE w = "written" ->
                   StateFile("dict", [k \in DOMAIN state |-> isoformat(state[k])])
              [] w = "open_fails" -> file
              [] w = "dump_fails" -> StateFile("garbage", EmptyDict)]

\* self._state[last_shown_key] = datetime.now() raises TypeError on a list
MarkShown(content_type, w) ==
  /\ rl_state' = IF IsDict(rl_state)
                   THEN mark_shown(rl_state, content_type, now) ELSE rl_state
  /\ last_mark' = IF IsDict(rl_state)
                    THEN [last_mark EXCEPT ![content_type] = now] ELSE last_mark
  /\ state_file' = IF IsDict(rl_state)
                     THEN _save_state(rl_state', state_file, w).file
                   ELSE state_file
  /\ result' = None
  /\ raised' = IF IsDict(rl_state) THEN "none" ELSE "TypeError"
  /\ op' = [name |-> "mark_shown", content_type |-> content_type,
            write |-> IF IsDict(rl_state) THEN w ELSE "not_tried"]
  /\ UNCHANGED <<hookVars, now, cacheVars, genVars>>

-----------------------------------------------------------------------------
(* Placeholders of the parts a specification does not exercise *)

IdleConfig == [idle |-> TRUE]
IdleCall   == [name |-> "none"]

CacheIdle ==
  /\ cache = EmptyDict /\ disk = EmptyDict
  /\ persistent_cache = FALSE /\ cache_ttl_minutes = 1
  /\ stored = [k \in CacheKeys |-> NoStore]

RateLimiterIdle ==
  /\ rl_state = EmptyDict
  /\ last_mark = [ct \in ContentTypes |-> -1]
  /\ state_file = NoStateFile



GenIdle == config = IdleConfig /\ gm = IdleCall /\ last_jw = -1

IdleInvocations == [idle |-> TRUE]
IdleHook        == [name |-> "none"]
NoLastRun       == [kind |-> "missing"]

HookIdle == inv = IdleInvocations /\ hook = IdleHook /\ last_run = NoLastRun

-----------------------------------------------------------------------------
(* Messages.  A string is a sequence of character classes:                  *)
(*   "a" a character that is no emoji and outside the ranges of the emoji   *)
(*       pattern of _apply_config_formatting,                               *)
(*   "e" an emoji inside the ranges of the pattern,                         *)
(*   "k" a character inside the ranges that is no emoji (U+24C2..U+1F251    *)
(*       takes in box drawing, CJK text and the private use area),          *)
(*   "u" an emoji outside the ranges (U+1F913 and the rest of U+1F900..),   *)
(*   " " whitespace.                                                        *)
(* origin names who produced the text, event the table of an event.         *)

Events  == {"SessionStart", "Stop", "Notification"}
Sources == {"default", "jw", "joke", "quote", "stoic"}

Msg(origin, event, text, enhanced) ==
  [origin |-> origin, event |-> event, text |-> text, enhanced |-> enhanced]

NoMsg       == Msg("None", "", << >>, FALSE)    \* Python None
EmptyString == Msg("empty", "", << >>, FALSE)   \* ""

\* if message:
Truthy(m) == m.text # << >>

RECURSIVE lstrip(_)
lstrip(text) ==
  IF text # << >> /\ Head(text) = " " THEN lstrip(Tail(text)) ELSE text

RECURSIVE rstrip(_)
rstrip(text) ==
  IF text # << >> /\ text[Len(text)] = " "
    THEN rstrip(SubSeq(text, 1, Len(text) - 1))
  ELSE text

\* str.strip()
strip(text) == rstrip(lstrip(text))

IsEmojiPatternChar(c) == c \in {"e", "k"}

\* emoji_pattern.sub('', message)
emoji_pattern_sub(text) == SelectSeq(text, LAMBDA c : ~IsEmojiPatternChar(c))

-----------------------------------------------------------------------------
(* The optional ollama subprocess *)

OllamaFailures == {"FileNotFoundError", "TimeoutExpired", "nonzero_exit"}

\* the first line of stdout, stripped, when ollama exits 0 with output
OllamaLines == {<< >>, <<"a">>, <<"e">>, <<"a", " ", "e">>}

OllamaOutcomes ==
  [kind : OllamaFailures, line : {<< >>}] \cup [kind : {"ok"}, line : OllamaLines]

\* subprocess.run(["ollama", "run", ...]) inside try/except (TimeoutExpired,
\* SubprocessError, FileNotFoundError), then
\* result.stdout.strip().split('\n')[0].strip(): the text, or None
OllamaText(o) == IF o.kind = "ok" THEN [ok |-> TRUE, text |-> o.line]
                 ELSE [ok |-> FALSE, text |-> << >>]

\* What a provider call hands back.
Run(exc, msg) == [raised |-> exc, msg |-> msg]

\* message_generator.generate_with_ollama
generate_with_ollama(event_type, o) ==
  LET r == OllamaText(o)
  IN IF r.ok THEN Msg("ollama", event_type, r.text, TRUE) ELSE NoMsg

-----------------------------------------------------------------------------
(* Scripture provider (lib/jw_daily_text.py) *)

\* the file of today's URL in ~/.claude-code/mood-lifter/jw_cache
JwFiles == {"absent", "garbage", "truncated"}

\* what APIClient.get hands to fetch_daily_text: None (request failed), a body
\* that is no dict, a dict without items, items holding the preferred
\* publication, items without it, items whose first element is no dict
JwPayloads == {"none", "text", "no_items", "preferred", "first_only", "bad_item"}

JwKey == _get_cache_key("jw_today", "")

JwDisk(file) ==
  IF file = "absent" THEN EmptyDict
  ELSE [k \in {JwKey} |-> [kind |-> file, data |-> None, expires_at |-> 0]]

\* a loader that takes every readable entry, expired or not, and deletes none
_load_persistent_cache_all(d, t, F) ==
  LET ok == {k \in DOMAIN d : k \notin F /\ PickleLoad(d[k]) = "none"}
  IN CacheOut([k \in ok |-> d[k]], d, None, "none")

\* APIClient._load_persistent_cache, run by the constructor in persistent mode
_load_persistent_cache(d, t, F) ==
  LET bad == {k \in DOMAIN d : k \notin F /\ PickleLoad(d[k]) # "none"
                               /\ ~CacheIOCaught(PickleLoad(d[k]))}
      ok  == {k \in DOMAIN d : k \notin F /\ PickleLoad(d[k]) = "none"}
      live == {k \in ok : ~is_expired(d[k], t)}
  IN IF bad # {}
       THEN CacheOut(EmptyDict, d, None, PickleLoad(d[CHOOSE k \in bad : TRUE]))
     ELSE CacheOut([k \in live |-> d[k]],
                   [k \in (DOMAIN d) \ (ok \ live) |-> d[k]], None, "none")

\* JWDailyTextClient.fetch_daily_text on the data get returned:
\* "none" for None, the kind of entry built, or the exception item.get raises
fetch_daily_text(payload) ==
  CASE payload \in {"none", "text", "no_items"} -> [raised |-> "none", entry |-> "none"]
    [] payload = "preferred"  -> [raised |-> "none", entry |-> "preferred"]
    [] payload = "first_only" -> [raised |-> "none", entry |-> "first"]
    [] payload = "bad_item"   -> [raised |-> "AttributeError", entry |-> "none"]

\* jw_daily_text.create_developer_encouragement
create_developer_encouragement(event_type, use_ollama, o) ==
  IF use_ollama /\ OllamaText(o).ok
    THEN Msg("jw", event_type, <<"e", " ", "a", " ">> \o OllamaText(o).text, TRUE)
  ELSE Msg("jw", event_type, <<"e", " ", "a", " ", "e", " ", "a">>, FALSE)

\* jw_daily_text.generate_jw_message
generate_jw_message(event_type, use_ollama, file, payload, o, t) ==
  LET client == _load_persistent_cache(JwDisk(file), t, {})
      daily  == fetch_daily_text(payload)
  IN IF client.raised # "none" THEN Run(client.raised, NoMsg)
     ELSE IF daily.raised # "none" THEN Run(daily.raised, NoMsg)
     ELSE IF daily.entry = "none" THEN Run("none", NoMsg)
     ELSE Run("none", create_developer_encouragement(event_type, use_ollama, o))

JwRuns(event_type, use_ollama, t) ==
  {generate_jw_message(event_type, use_ollama, f, p, o, t) :
     f \in JwFiles, p \in JwPayloads, o \in OllamaOutcomes}

-----------------------------------------------------------------------------
(* Joke and quote provider (lib/external_apis.py) *)

\* what get_random_content found: nothing, a string, or a JSON value that is
\* truthy and no string (a number)
ExtContents == {"none", "text", "nonstr"}

\* f"..{content['content'][:100]}" and its quote twin
FormatExternal(content_type, event_type, content) ==
  IF content = "nonstr" THEN Run("TypeError", NoMsg)
  ELSE Run("none", Msg(content_type, event_type, <<"e", " ", "a">>, FALSE))

\* external_apis.generate_external_message (with enhance_with_ollama)
generate_external_message(event_type, content_type, use_ollama, content, o) ==
  IF content = "none" THEN Run("none", NoMsg)
  ELSE IF use_ollama /\ OllamaText(o).ok
    THEN Run("none", Msg(content_type, event_type, OllamaText(o).text, TRUE))
  ELSE FormatExternal(content_type, event_type, content)

ExternalRuns(event_type, content_type, use_ollama) ==
  {generate_external_message(event_type, content_type, use_ollama, c, o) :
     c \in ExtContents, o \in OllamaOutcomes}

\* external_apis.get_fallback_external_message: the static tables
\* (one joke ends with U+1F913)
FALLBACK_JOKES ==
  {Msg("FALLBACK_JOKES", "", <<"a", " ", "e">>, FALSE),
   Msg("FALLBACK_JOKES", "", <<"a", " ", "u">>, FALSE)}
FALLBACK_QUOTES == {Msg("FALLBACK_QUOTES", "", <<"a">>, FALSE)}

-----------------------------------------------------------------------------
(* Stoic provider (lib/stoic_quotes.py) *)

\* stoic_quotes.generate_stoic_message; pure is random.random() < 0.4.  The
\* quote texts of the file open with U+F8FF, which the emoji pattern covers.
generate_stoic_message(event_type, use_ollama, pure, o) ==
  IF use_ollama /\ pure /\ OllamaText(o).ok /\ OllamaText(o).text # << >>
    THEN Run("none", Msg("stoic", event_type, OllamaText(o).text, TRUE))
  ELSE Run("none", Msg("stoic", event_type, <<"k", "a", " ", "a">>, FALSE))

StoicRuns(event_type, use_ollama) ==
  {generate_stoic_message(event_type, use_ollama, pure, o) :
     pure \in BOOLEAN, o \in OllamaOutcomes}

\* stoic_quotes.get_fallback_stoic_message
STOIC_FALLBACK == {Msg("STOIC_FALLBACK", "", <<"k", "a", " ", "a">>, FALSE)}

-----------------------------------------------------------------------------
(* Configuration (lib/config.py), as the snapshot get_config() hands out.   *)
(* Probabilities and random.random() draws are in tenths.  api is           *)
(* API_FEATURES_AVAILABLE of message_generator: whether its lib imports     *)
(* succeeded; when they did not, get_config() hands out DummyConfig.        *)

EventSetting(enabled, probability) ==
  [enabled |-> enabled, probability |-> probability]

CertainProbability == 10

Cfg(api, events, ollama, weights, prefer, jw, limit, ext, emojis) ==
  [api |-> api, events |-> events, ollama_enabled |-> ollama,
   weights |-> weights, prefer_sources |-> prefer, jw_enabled |-> jw,
   rate_limit_minutes |-> limit, external_apis_enabled |-> ext,
   include_emojis |-> emojis]

DummyConfig ==
  Cfg(FALSE, [ev \in Events |-> EventSetting(TRUE, CertainProbability)], TRUE,
      [s \in {"default"} |-> 100], <<"default">>, FALSE, 0, FALSE, TRUE)

get_config(cfg) == IF cfg.api THEN cfg ELSE DummyConfig

\* the gate without the test of "enabled"
should_show_message_any_event(cfg, event_type, draw) ==
  draw < cfg.events[event_type].probability

should_show_message_lenient(cfg, event_type, draw) ==
  IF ~cfg.events[event_type].enabled THEN FALSE
  ELSE draw <= cfg.events[event_type].probability

\* Config.should_show_message
should_show_message(cfg, event_type, draw) ==
  IF ~cfg.events[event_type].enabled THEN FALSE
  ELSE draw < cfg.events[event_type].probability

\* rate_limiter.should_show_jw_content
should_show_jw_content(cfg, state, t) ==
  should_show(state, "jw_daily_text", cfg.rate_limit_minutes, t)

\* the mark filed under another content type
mark_jw_content_shown_other(state, t) == mark_shown(state, "other", t)

\* rate_limiter.mark_jw_content_shown
mark_jw_content_shown(state, t) == mark_shown(state, "jw_daily_text", t)

-----------------------------------------------------------------------------
(* message_generator.generate_message *)

\* FALLBACK_MESSAGES[event_type], through get_fallback_message
FALLBACK_MESSAGES(event_type) ==
  {Msg("FALLBACK_MESSAGES", event_type, <<"e", " ", "a">>, FALSE)}

PreferredBoost == 10

Count(seq, x) == Cardinality({i \in DOMAIN seq : seq[i] = x})

EmptyPool == [s \in Sources |-> 0]

\* the boost applied whatever the event
ConfiguredPoolBoostAlways(cfg, event_type, jw_ok) ==
  [s \in Sources |->
     (IF s \in DOMAIN cfg.weights /\ (s # "jw" \/ jw_ok) /\ cfg.weights[s] > 0
        THEN cfg.weights[s] ELSE 0)
     + (IF s \in DOMAIN cfg.weights /\ (s # "jw" \/ jw_ok)
          THEN PreferredBoost * Count(cfg.prefer_sources, s) ELSE 0)]

ConfiguredPoolNoCooldown(cfg, event_type, jw_ok) ==
  [s \in Sources |->
     (IF s \in DOMAIN cfg.weights /\ cfg.weights[s] > 0
        THEN cfg.weights[s] ELSE 0)
     + (IF event_type = "SessionStart" /\ s \in DOMAIN cfg.weights
          THEN PreferredBoost * Count(cfg.prefer_sources, s) ELSE 0)]

\* the sources list of the configured branch, as entries per source
ConfiguredPool(cfg, event_type, jw_ok) ==
  [s \in Sources |->
     (IF s \in DOMAIN cfg.weights /\ (s # "jw" \/ jw_ok) /\ cfg.weights[s] > 0
        THEN cfg.weights[s] ELSE 0)
     + (IF event_type = "SessionStart" /\ s \in DOMAIN cfg.weights
           /\ (s # "jw" \/ jw_ok)
          THEN PreferredBoost * Count(cfg.prefer_sources, s) ELSE 0)]

\* the sources list of the branch without configuration
DefaultPool(jw_ok) ==
  [s \in Sources |->
     CASE s = "default" -> 3
       [] s = "jw"      -> IF jw_ok THEN 2 ELSE 0
       [] s = "joke"    -> 2
       [] s = "quote"   -> 1
       [] s = "stoic"   -> 2]

PoolSupport(pool) == {s \in Sources : pool[s] > 0}

\* The gate, the ollama default and the source selection.
Selection(cfg0, a, draw, state, t) ==
  LET cfg        == get_config(cfg0)
      has_config == a.use_config
      closed     == has_config /\ ~should_show_message(cfg, a.event_type, draw)
      use_ollama == IF a.use_ollama = "None"
                      THEN (IF has_config THEN cfg.ollama_enabled ELSE TRUE)
                    ELSE a.use_ollama = "True"
      jw_ok      == should_show_jw_content(cfg0, state, t)
      forced     == cfg0.api /\ a.event_type = "SessionStart"
                    /\ a.message_source = None /\ jw_ok
      auto       == cfg0.api /\ a.message_source = None /\ ~forced
      pool       == IF ~auto THEN EmptyPool
                    ELSE IF has_config
                      THEN ConfiguredPool(cfg, a.event_type, jw_ok)
                    ELSE DefaultPool(jw_ok)
  IN [cfg |-> cfg, has_config |-> has_config, closed |-> closed,
      use_ollama |-> use_ollama, jw_ok |-> jw_ok, forced |-> forced,
      auto |-> auto, pool |-> pool]

\* message_source after the selection; pick is random.choice(sources)
ChosenSource(s, a, pick) ==
  IF s.forced THEN "jw"
  ELSE IF ~s.auto THEN a.message_source
  ELSE IF PoolSupport(s.pool) = {} THEN "default"
  ELSE pick

\* a dispatch whose quote branch asks the provider for a joke
Provider_quote_as_joke(s, chosen) ==
  IF ~s.cfg.api THEN "none"
  ELSE IF chosen = "jw" /\ (~s.has_config \/ s.cfg.jw_enabled) THEN "jw"
  ELSE IF chosen \in {"joke", "quote"}
          /\ (~s.has_config \/ s.cfg.external_apis_enabled) THEN "joke"
  ELSE IF chosen = "stoic" THEN "stoic"
  ELSE "none"

\* the provider the dispatch invokes, "none" when it invokes none
Provider(s, chosen) ==
  IF ~s.cfg.api THEN "none"
  ELSE IF chosen = "jw" /\ (~s.has_config \/ s.cfg.jw_enabled) THEN "jw"
  ELSE IF chosen \in {"joke", "quote"}
          /\ (~s.has_config \/ s.cfg.external_apis_enabled) THEN chosen
  ELSE IF chosen = "stoic" THEN "stoic"
  ELSE "none"

NoRun    == Run("none", NoMsg)
NoOllama == [kind |-> "not_called", line |-> << >>]

\* every way a provider call can end, per provider, event, use_ollama and time
ProviderRunsTable ==
  [provider \in Sources \ {"default"}, event_type \in Events,
   use_ollama \in BOOLEAN, t \in 0..MaxTime |->
     CASE provider = "jw"    -> JwRuns(event_type, use_ollama, t)
       [] provider = "stoic" -> StoicRuns(event_type, use_ollama)
       [] OTHER              -> ExternalRuns(event_type, provider, use_ollama)]

ProviderRuns(provider, event_type, use_ollama, t) ==
  IF provider = "none" THEN {NoRun}
  ELSE ProviderRunsTable[provider, event_type, use_ollama, t]

\* the last stage without the test of API_FEATURES_AVAILABLE
FallbackTableAnyBuild(api, chosen, event_type) ==
  IF chosen = "joke" THEN FALLBACK_JOKES
  ELSE IF chosen = "quote" THEN FALLBACK_QUOTES
  ELSE IF chosen = "stoic" THEN STOIC_FALLBACK
  ELSE FALLBACK_MESSAGES(event_type)

\* the table the last stage draws from
FallbackTable(api, chosen, event_type) ==
  IF api /\ chosen = "joke" THEN FALLBACK_JOKES
  ELSE IF api /\ chosen = "quote" THEN FALLBACK_QUOTES
  ELSE IF api /\ chosen = "stoic" THEN STOIC_FALLBACK
  ELSE FALLBACK_MESSAGES(event_type)

\* message_generator._apply_config_formatting; max_length is read from the
\* configuration and then not used
_apply_config_formatting(message, has_config, cfg) ==
  IF ~has_config THEN message
  ELSE IF ~cfg.include_emojis
    THEN [message EXCEPT !.text = strip(emoji_pattern_sub(message.text))]
  ELSE message

GmOut(s, chosen, provider, stage, exc, ret, marked, ollama) ==
  [gate |-> IF ~s.has_config THEN "no_config"
            ELSE IF s.closed THEN "closed" ELSE "open",
   use_ollama |-> s.use_ollama, jw_ok |-> s.jw_ok, forced |-> s.forced,
   auto |-> s.auto, pool |-> s.pool, chosen |-> chosen, provider |-> provider,
   stage |-> stage, raised |-> exc, ret |-> ret, marked |-> marked,
   ollama_generate |-> ollama]

\* generate_message; pick, run, gen and table are what random.choice, the
\* provider, the ollama subprocess and the table draw give this call
generate_message(cfg0, a, draw, pick, run, gen, table, state, t) ==
  LET s        == Selection(cfg0, a, draw, state, t)
      chosen   == ChosenSource(s, a, pick)
      provider == Provider(s, chosen)
      fmt(m)   == _apply_config_formatting(m, s.has_config, s.cfg)
      g        == generate_with_ollama(a.event_type, gen)
  IN IF s.closed
       THEN GmOut(s, None, "none", "gate", "none", EmptyString, FALSE, FALSE)
     ELSE IF provider # "none" /\ run.raised # "none"
       THEN GmOut(s, chosen, provider, "provider", run.raised, NoMsg, FALSE, FALSE)
     ELSE IF provider # "none" /\ Truthy(run.msg)
       THEN GmOut(s, chosen, provider, "provider", "none", fmt(run.msg),
                  provider = "jw", FALSE)
     ELSE IF s.use_ollama /\ Truthy(g)
       THEN GmOut(s, chosen, provider, "ollama", "none", fmt(g), FALSE, TRUE)
     ELSE GmOut(s, chosen, provider, "table", "none", fmt(table), FALSE,
                s.use_ollama)

SourceArgs == Sources \cup {None}

\* One hook process makes one call: a call begins only when none is pending.
GenerateMessage(a, draw) ==
  LET s == Selection(config, a, draw, rl_state, now)
  IN op.name # "generate_message" /\
     \E pick \in (IF s.auto /\ ~s.closed /\ PoolSupport(s.pool) # {}
                    THEN PoolSupport(s.pool) ELSE {"default"}) :
       LET chosen   == ChosenSource(s, a, pick)
           provider == IF s.closed THEN "none" ELSE Provider(s, chosen)
       IN \E run \in ProviderRuns(provider, a.event_type, s.use_ollama, now) :
            LET reaches == ~s.closed /\ run.raised = "none" /\ ~Truthy(run.msg)
            IN \E gen \in (IF reaches /\ s.use_ollama THEN OllamaOutcomes
                           ELSE {NoOllama}) :
                 LET last == reaches
                             /\ ~(s.use_ollama
                                  /\ Truthy(generate_with_ollama(a.event_type, gen)))
                 IN \E table \in (IF last
                                    THEN FallbackTable(s.cfg.api, chosen, a.event_type)
                                  ELSE {NoMsg}) :
                      LET o == generate_message(config, a, draw, pick, run, gen,
                                                table, rl_state, now)
                      IN /\ gm' = [call |-> a, draw |-> draw,
                                   rl_before |-> rl_state,
                                   last_jw_before |-> last_jw, out |-> o]
                         /\ last_jw' = IF o.raised = "none" /\ o.ret.origin = "jw"
                                         THEN now
                                       ELSE last_jw
                         /\ result' = o.ret
                         /\ raised' = o.raised
                         /\ rl_state' = IF o.marked
                                          THEN mark_jw_content_shown(rl_state, now)
                                        ELSE rl_state
                         /\ last_mark' = IF o.marked
                                           THEN [last_mark EXCEPT !["jw_daily_text"] = now]
                                         ELSE last_mark
                         /\ op' = [name |-> "generate_message"]
                         /\ UNCHANGED <<hookVars, now, cacheVars, config, state_file>>

\* The hook process prints what it got and ends; the next hook is a new process.
HookExit ==
  /\ op.name = "generate_message"
  /\ op' = [name |-> "exit"]
  /\ result' = None
  /\ raised' = "none"
  /\ gm' = IdleCall
  /\ UNCHANGED <<hookVars, now, cacheVars, rlVars, config, last_jw>>

Call(event_type, use_ollama, message_source, use_config) ==
  [event_type |-> event_type, use_ollama |-> use_ollama,
   message_source |-> message_source, use_config |-> use_config]

-----------------------------------------------------------------------------
(* SpecCache: one APIClient whose file operations succeed (F = {}) *)

InitCache ==
  /\ now = 0
  /\ op = [name |-> "init"]
  /\ result = None
  /\ raised = "none"
  /\ cache = EmptyDict
  /\ disk = EmptyDict
  /\ persistent_cache \in BOOLEAN
  /\ cache_ttl_minutes \in 1..MaxTTL
  /\ stored = [k \in CacheKeys |-> NoStore]
  /\ RateLimiterIdle
  /\ GenIdle
  /\ HookIdle

\* The transport outcomes that differ for the cache: a body (JSON or text), or
\* one failure; SpecRequests below runs get and post over every failure.
CacheTransportOutcomes ==
  {out \in TransportOutcomes : out.kind = "raise" => out.data = "Timeout"}

NextCache ==
  \/ Tick
  \/ \E key \in CacheKeys, data \in Data : AddToCache(key, data, {})
  \/ \E key \in CacheKeys : GetFromCache(key, {})
  \/ ClearCache({})
  \/ \E url \in Urls, params \in ParamForms, use_cache \in BOOLEAN,
        out \in CacheTransportOutcomes : Get(url, params, use_cache, out, {})

SpecCache == InitCache /\ [][NextCache]_vars

\* C1: a lookup made before store time + ttl returns the value of the latest
\* store of that key; a lookup made after it returns None and leaves the key
\* neither in the memory map nor, in persistent mode, among the cache files.
C1_CacheTTL ==
  (op.name = "_get_from_cache" /\ stored[op.key].at >= 0) =>
    LET s == stored[op.key]
        expires_at == s.at + cache_ttl_minutes
    IN /\ now < expires_at => result = s.data
       /\ now > expires_at =>
            /\ result = None
            /\ op.key \notin DOMAIN cache
            /\ persistent_cache => op.key \notin DOMAIN disk

C1_Witness ==
  /\ op.name = "_get_from_cache"
  /\ persistent_cache
  /\ stored[op.key].at >= 0
  /\ now > stored[op.key].at + cache_ttl_minutes
  /\ result = None
  /\ op.key \notin DOMAIN disk

\* C3: a get with use_cache made while the latest store of its key is
\* unexpired and not cleared returns the stored data and sends no request.
C3_CachedGetSendsNothing ==
  [][ ( /\ op'.name = "get"
        /\ op'.use_cache
        /\ stored[op'.key].at >= 0
        /\ stored[op'.key].data # None
        /\ now <= stored[op'.key].at + cache_ttl_minutes )
      => (result' = stored[op'.key].data /\ ~op'.sent) ]_vars

C3_Witness ==
  /\ op.name = "get"
  /\ op.use_cache
  /\ ~op.sent
  /\ stored[op.key].at >= 0
  /\ stored[op.key].at < now
  /\ result = stored[op.key].data

-----------------------------------------------------------------------------
(* SpecRequests: get and post of one APIClient over every request failure *)

\* every failure, and one body of each kind
RequestOutcomes ==
  {out \in TransportOutcomes : out.kind # "raise" => out.data = "d1"}

NextRequests ==
  \/ Tick
  \/ \E url \in Urls, params \in ParamForms, use_cache \in BOOLEAN,
        out \in RequestOutcomes : Get(url, params, use_cache, out, {})
  \/ \E out \in RequestOutcomes : Post(out)

SpecRequests == InitCache /\ [][NextRequests]_vars

\* C2: a get or post whose request fails (timeout, connection error, HTTP
\* error status, retries exhausted, any other exception) returns None and
\* lets no exception escape.
C2_FailuresReturnNone ==
  (op.name \in {"get", "post"} /\ op.failure # "none") =>
    (result = None /\ raised = "none")

C2_Witness ==
  /\ op.name = "post"
  /\ op.failure = "RetryError"
  /\ result = None

-----------------------------------------------------------------------------
(* SpecRateLimiter: one RateLimiter *)

InitRateLimiter ==
  /\ now = 0
  /\ op = [name |-> "init"]
  /\ result = None
  /\ raised = "none"
  /\ CacheIdle
  /\ rl_state \in {EmptyDict,
                   [k \in {last_shown_key("jw_daily_text")} |-> InvalidTimestamp]}
  /\ last_mark = [ct \in ContentTypes |-> -1]
  /\ state_file = NoStateFile
  /\ GenIdle
  /\ HookIdle

NextRateLimiter ==
  \/ Tick
  \/ \E ct \in ContentTypes, c \in 0..MaxCooldown : ShouldShow(ct, c)
  \/ \E ct \in ContentTypes, w \in WriteOutcomes : MarkShown(ct, w)

SpecRateLimiter == InitRateLimiter /\ [][NextRateLimiter]_vars

\* C4: should_show is true before any mark_shown of the content type, false
\* less than cooldown_minutes after the latest one, true from then on.
C4_Cooldown ==
  op.name = "should_show" =>
    LET m == last_mark[op.content_type]
    IN /\ m < 0 => result = TRUE
       /\ (m >= 0 /\ now - m < op.cooldown_minutes) => result = FALSE
       /\ (m >= 0 /\ now - m >= op.cooldown_minutes) => result = TRUE

C4_Witness ==
  /\ op.name = "should_show"
  /\ op.cooldown_minutes > 0
  /\ last_mark[op.content_type] >= 0
  /\ now - last_mark[op.content_type] = op.cooldown_minutes
  /\ result = TRUE

-----------------------------------------------------------------------------
(* Specifications of generate_message.  One hook process runs per call, so  *)
(* each call loads the limiter state the previous one saved.  The           *)
(* configuration is that of the installation and stays as Init chose it.    *)

InitGen(configs) ==
  /\ now = 0
  /\ op = [name |-> "init"]
  /\ result = None
  /\ raised = "none"
  /\ CacheIdle
  /\ RateLimiterIdle
  /\ config \in configs
  /\ gm = IdleCall
  /\ HookIdle
  /\ last_jw = -1

AllEvents(setting) == [ev \in Events |-> setting]

EvenWeights == [s \in {"default", "jw", "joke"} |-> 1]

(* SpecGate: the gate settings against the draws *)

Probabilities == {0, 5, CertainProbability}
Draws == {0, 4, 5, 9}

GateSettings ==
  {EventSetting(FALSE, CertainProbability)}
  \cup {EventSetting(TRUE, p) : p \in Probabilities}

GateConfigs ==
  {Cfg(TRUE, AllEvents(g), TRUE, EvenWeights, <<"default">>, TRUE, MaxCooldown,
       TRUE, TRUE) : g \in GateSettings}

GateCalls ==
  {Call(ev, "None", src, uc) :
     ev \in Events, src \in {None, "default", "joke"}, uc \in BOOLEAN}

NextGate ==
  \/ Tick
  \/ HookExit
  \/ \E a \in GateCalls, draw \in Draws : GenerateMessage(a, draw)

SpecGate == InitGen(GateConfigs) /\ [][NextGate]_vars

\* whether the event is disabled or the draw does not pass its probability
GateFails ==
  \/ ~config.events[gm.call.event_type].enabled
  \/ ~(gm.draw < config.events[gm.call.event_type].probability)

\* C5: when the configuration is consulted and the event is disabled or the
\* draw does not pass the event's probability, generate_message returns the
\* empty string, selects no source, calls no provider and no ollama, and
\* leaves the limiter state as it was.
C5_GateClosedReturnsEmpty ==
  (op.name = "generate_message" /\ gm.call.use_config /\ GateFails) =>
    /\ result = EmptyString
    /\ raised = "none"
    /\ gm.out.chosen = None
    /\ gm.out.provider = "none"
    /\ ~gm.out.ollama_generate
    /\ rl_state = gm.rl_before

C5_Witness ==
  /\ op.name = "generate_message"
  /\ gm.call.use_config
  /\ config.events[gm.call.event_type].enabled
  /\ gm.draw = config.events[gm.call.event_type].probability
  /\ gm.call.message_source = None
  /\ result = EmptyString

(* SpecSelect: automatic source selection over weights, time preferences,  *)
(* enablement flags and the scripture cooldown; ollama is switched off      *)

WeightValues == {0, 1}
WeightTables == [{"default", "jw", "joke"} -> WeightValues]
PreferLists  == {<<"default">>, <<"jw">>, <<"joke">>}

SelectConfigs ==
  {Cfg(TRUE, AllEvents(EventSetting(TRUE, CertainProbability)), FALSE, w, p,
       jw, MaxCooldown, ext, TRUE) :
     w \in WeightTables, p \in PreferLists, jw \in BOOLEAN, ext \in BOOLEAN}

SelectCalls ==
  {Call(ev, "None", None, uc) : ev \in Events, uc \in BOOLEAN}

NextSelect ==
  \/ Tick
  \/ HookExit
  \/ \E a \in SelectCalls : GenerateMessage(a, 0)

SpecSelect == InitGen(SelectConfigs) /\ [][NextSelect]_vars

\* whether the scripture source was inside its cooldown when the call began
JwInCooldownBefore ==
  LET key == last_shown_key("jw_daily_text")
  IN /\ key \in DOMAIN gm.rl_before
     /\ gm.rl_before[key].kind = "datetime"
     /\ now - gm.rl_before[key].t < config.rate_limit_minutes

AutoSelected ==
  /\ op.name = "generate_message"
  /\ gm.call.message_source = None
  /\ gm.out.gate # "closed"

\* C8: while the scripture source is inside its cooldown, automatic source
\* selection never chooses it, whatever the event, the weights and the time
\* preferences.
C8_JwNotChosenInCooldown ==
  (AutoSelected /\ JwInCooldownBefore) => gm.out.chosen # "jw"

C8_Witness ==
  /\ AutoSelected
  /\ JwInCooldownBefore
  /\ gm.call.event_type = "SessionStart"
  /\ gm.call.use_config
  /\ config.weights["jw"] > 0
  /\ config.prefer_sources = <<"jw">>
  /\ gm.out.chosen = "joke"

ZeroWeight(src) == src \in DOMAIN config.weights /\ config.weights[src] = 0

\* C9 as stated: with the configuration in use, automatic selection never
\* chooses a source whose configured weight is 0.
C9_ZeroWeightNeverChosen ==
  (AutoSelected /\ gm.call.use_config) => ~ZeroWeight(gm.out.chosen)

\* whether the configuration in use disables the source
SourceDisabled(src) ==
  \/ src = "jw" /\ ~config.jw_enabled
  \/ src \in {"joke", "quote"} /\ ~config.external_apis_enabled

TableOf(origin) ==
  CASE origin = "FALLBACK_JOKES"  -> "joke"
    [] origin = "FALLBACK_QUOTES" -> "quote"
    [] origin = "STOIC_FALLBACK"  -> "stoic"
    [] OTHER                      -> "none"

\* C10 as stated: with a source disabled in the configuration in use,
\* automatic selection never chooses it and generate_message never returns
\* content from it or from its static fallback table.
C10_DisabledSourceNeverUsed ==
  (AutoSelected /\ gm.call.use_config) =>
    /\ ~SourceDisabled(gm.out.chosen)
    /\ raised = "none" =>
         (~SourceDisabled(result.origin) /\ ~SourceDisabled(TableOf(result.origin)))

(* SpecFailures: every source, asked for by name or selected, over the     *)
(* failures of its provider, of the scripture cache file and of ollama      *)

FailureConfigs ==
  {Cfg(api, AllEvents(EventSetting(TRUE, CertainProbability)), TRUE,
       EvenWeights, <<"default">>, TRUE, MaxCooldown, TRUE, emojis) :
     api \in BOOLEAN, emojis \in BOOLEAN}

FailureCalls ==
  {Call(ev, uo, src, uc) :
     ev \in Events, uo \in {"None", "False"}, src \in SourceArgs, uc \in BOOLEAN}

NextFailures ==
  \/ Tick
  \/ HookExit
  \/ \E a \in FailureCalls : GenerateMessage(a, 0)

SpecFailures == InitGen(FailureConfigs) /\ [][NextFailures]_vars

\* C6 as stated: no call of generate_message lets an exception escape.
C6_NeverRaises ==
  op.name = "generate_message" => raised = "none"

\* C7 as stated: a call of generate_message that passes the gate and returns
\* does not return the empty string.
C7_NonEmptyWhenGatePasses ==
  (op.name = "generate_message" /\ gm.out.gate # "closed" /\ raised = "none") =>
    result.text # << >>

-----------------------------------------------------------------------------
(* Displays of the rate-limited source: every way of naming a source, the   *)
(* gate open or shut, every cooldown.                                       *)

DisplayConfigs ==
  {Cfg(TRUE, AllEvents(EventSetting(TRUE, p)), FALSE, EvenWeights, << >>,
       TRUE, limit, TRUE, TRUE) :
     p \in {0, CertainProbability}, limit \in 1..MaxCooldown}

DisplayCalls ==
  {Call(ev, "None", src, uc) :
     ev \in Events, src \in SourceArgs, uc \in BOOLEAN}

NextDisplay ==
  \/ Tick
  \/ HookExit
  \/ \E a \in DisplayCalls : GenerateMessage(a, 0)

SpecDisplay == InitGen(DisplayConfigs) /\ [][NextDisplay]_vars

ReturnedJw == op.name = "generate_message" /\ raised = "none" /\ result.origin = "jw"

\* C11: a call of generate_message that returns content of the jw provider
\* leaves the limiter state it found with the jw mark set to the time of the
\* call; every other call (provider returned nothing, another source, gate
\* shut) leaves the limiter state as it found it.
C11_MarkedIffJwContent ==
  op.name = "generate_message" =>
    rl_state = IF ReturnedJw
                 THEN DictSet(gm.rl_before, last_shown_key("jw_daily_text"),
                              Timestamp(now))
               ELSE gm.rl_before

\* a jw display that moved an older mark
C11_Witness ==
  /\ ReturnedJw
  /\ last_shown_key("jw_daily_text") \in DOMAIN gm.rl_before
  /\ rl_state # gm.rl_before

\* C12 as stated: two calls of generate_message that return jw content are at
\* least rate_limit_minutes apart.
C12_JwDisplaysApart ==
  (ReturnedJw /\ gm.last_jw_before # -1) =>
    now - gm.last_jw_before >= config.rate_limit_minutes

-----------------------------------------------------------------------------
(* The last stage of generate_message, under SpecFailures *)

LastStage ==
  op.name = "generate_message" /\ raised = "none" /\ gm.out.stage = "table"

\* the table the claim names for a source
StaticTableOf(chosen, event_type) ==
  CASE chosen = "joke"  -> FALLBACK_JOKES
    [] chosen = "quote" -> FALLBACK_QUOTES
    [] chosen = "stoic" -> STOIC_FALLBACK
    [] OTHER            -> FALLBACK_MESSAGES(event_type)

\* C13 as stated: a call that reaches the last stage returns an element of
\* the static table of the chosen source.
C13_ElementOfSourceTable ==
  LastStage => result \in StaticTableOf(gm.out.chosen, gm.call.event_type)

\* C13, amended: a call that reaches the last stage returns what
\* _apply_config_formatting makes of an element of a static table: the table
\* of the chosen source when the API modules were imported, the event's
\* FALLBACK_MESSAGES for every source when they were not.
C13_FormattedElementOfTable ==
  LastStage =>
    \E m \in (IF config.api
                THEN StaticTableOf(gm.out.chosen, gm.call.event_type)
              ELSE FALLBACK_MESSAGES(gm.call.event_type)) :
      result = _apply_config_formatting(m, gm.call.use_config,
                                        get_config(config))

\* the last stage reached for a joke with the API modules imported and the
\* emojis switched off
C13_Witness ==
  /\ LastStage
  /\ gm.out.chosen = "joke"
  /\ config.api
  /\ gm.call.use_config
  /\ ~config.include_emojis

\* what a call invoked, in order: the provider its dispatch ran, then
\* generate_with_ollama
Invoked(o) ==
  (IF o.provider # "none" THEN <<o.provider>> ELSE << >>)
  \o (IF o.ollama_generate THEN <<"generate_with_ollama">> ELSE << >>)

AtMostOneProviderThenOllama ==
  LET calls == Invoked(gm.out)
  IN /\ Len(calls) <= 2
     /\ Cardinality({i \in DOMAIN calls : calls[i] \in Sources}) <= 1
     /\ \A i \in DOMAIN calls : calls[i] = "generate_with_ollama" => i = Len(calls)

\* C14 as stated: a call of generate_message invokes at most one source
\* provider, then at most one further generation attempt, and reaches a final
\* string.
C14_BoundedAttemptsThenString ==
  op.name = "generate_message" =>
    /\ AtMostOneProviderThenOllama
    /\ raised = "none"
    /\ result # NoMsg

-----------------------------------------------------------------------------
(* The retry strategy mounted on the session (APIClient.__init__): what one  *)
(* session.get or session.post does with the exchanges the server offers.    *)
(* The loop itself is urllib3's (HTTPConnectionPool.urlopen with the Retry   *)
(* object built in __init__).                                                *)

MaxExchanges == 3

\* Timeouts.MAX_RETRIES, the default of max_retries
MAX_RETRIES == 1

\* Retry(status_forcelist=[429, 500, 502, 503, 504])
status_forcelist == {429, 500, 502, 503, 504}

\* Retry is built without respect_retry_after_header, which defaults to True
\* and applies to Retry.RETRY_AFTER_STATUS_CODES
RETRY_AFTER_STATUS_CODES == {413, 429, 503}

Statuses == {200, 404, 413, 429, 500, 503}

\* one transport attempt: a response, or no response (the connection failed,
\* or the read timed out)
Exchanges ==
  [kind : {"response"}, status : Statuses, retry_after : BOOLEAN] \cup
  [kind : {"connect_error", "read_timeout"}, status : {0}, retry_after : {FALSE}]

Scripts == [1..MaxExchanges -> Exchanges]

\* Retry.is_retry for a method of allowed_methods, total retries left
is_retry(total, x) ==
  \/ x.status \in status_forcelist
  \/ total > 0 /\ x.retry_after /\ x.status \in RETRY_AFTER_STATUS_CODES

\* session.get / session.post followed by raise_for_status and json():
\* attempt i meets script[i]; total is what Retry.total has left
RECURSIVE session_request(_, _, _)
session_request(script, i, total) ==
  LET x == script[i]
      done(out) == [attempts |-> i, out |-> out]
  IN IF x.kind # "response"
       THEN IF total = 0 \/ i = Len(script)
              THEN done([kind |-> "raise", data |-> "ConnectionError"])
            ELSE session_request(script, i + 1, total - 1)
     ELSE IF is_retry(total, x)
       THEN IF total = 0 \/ i = Len(script)
              THEN done([kind |-> "raise", data |-> "RetryError"])
            ELSE session_request(script, i + 1, total - 1)
     ELSE IF x.status >= 400
       THEN done([kind |-> "raise", data |-> "HTTPError"])
     ELSE done([kind |-> "json", data |-> "d1"])

\* get(url, use_cache=False) or post(url) against a server that answers the
\* attempts with script
Request(method, script) ==
  LET s == session_request(script, 1, MAX_RETRIES)
      o == IF method = "get"
             THEN get(cache, disk, _get_cache_key("u1", ""), FALSE, s.out, now,
                      cache_ttl_minutes, {}, persistent_cache)
           ELSE post(s.out)
  IN /\ op.name # "request"
     /\ result' = o.ret
     /\ raised' = o.raised
     /\ op' = [name |-> "request", method |-> method, script |-> script,
               attempts |-> s.attempts]
     /\ UNCHANGED <<hookVars, now, cacheVars, rlVars, genVars>>

InitRetry ==
  /\ now = 0
  /\ op = [name |-> "init"]
  /\ result = None
  /\ raised = "none"
  /\ CacheIdle
  /\ RateLimiterIdle
  /\ GenIdle
  /\ HookIdle

\* The caller takes the result; its next request is another call.
RequestReturn ==
  /\ op.name = "request"
  /\ op' = [name |-> "return"]
  /\ result' = None
  /\ raised' = "none"
  /\ UNCHANGED <<hookVars, now, cacheVars, rlVars, genVars>>

NextRetry ==
  \/ RequestReturn
  \/ \E method \in {"get", "post"}, script \in Scripts : Request(method, script)

SpecRetry == InitRetry /\ [][NextRetry]_vars

\* C15 as stated: a get or post makes at most 1 + max_retries transport
\* attempts, repeats one only after a connection or timeout error or a
\* response with status 429, 500, 502, 503 or 504, and ends with None after a
\* single attempt on any other HTTP error status.
C15_RetryPolicy ==
  op.name = "request" =>
    /\ op.attempts <= 1 + MAX_RETRIES
    /\ \A i \in 1..(op.attempts - 1) :
         \/ op.script[i].kind # "response"
         \/ op.script[i].status \in {429, 500, 502, 503, 504}
    /\ (/\ op.script[1].kind = "response"
        /\ op.script[1].status >= 400
        /\ op.script[1].status \notin {429, 500, 502, 503, 504})
       => (op.attempts = 1 /\ result = None)

-----------------------------------------------------------------------------
(* The odds of the selection, under SpecSelect *)

PoolSize(pool) ==
  pool["default"] + pool["jw"] + pool["joke"] + pool["quote"] + pool["stoic"]

\* how many of the equally likely outcomes of the selection fall on each
\* source: the SessionStart shortcut and the empty list leave one outcome,
\* random.choice(sources) as many as the list has entries
SelectionOdds(o) ==
  IF o.forced THEN [s \in Sources |-> IF s = "jw" THEN 1 ELSE 0]
  ELSE IF PoolSupport(o.pool) = {} THEN [s \in Sources |-> IF s = "default" THEN 1 ELSE 0]
  ELSE o.pool

ConfiguredWeight(s) == IF s \in DOMAIN config.weights THEN config.weights[s] ELSE 0

WeightSum == PoolSize([s \in Sources |-> ConfiguredWeight(s)])

\* C16 as stated: with the configuration in use, no source named by the
\* caller and the scripture source outside its cooldown, every source is
\* chosen with probability weight / sum of the weights, whatever the event.
C16_ChosenInProportion ==
  (AutoSelected /\ gm.call.use_config /\ gm.out.jw_ok /\ WeightSum > 0) =>
    \A s \in Sources :
      SelectionOdds(gm.out)[s] * WeightSum
        = ConfiguredWeight(s) * PoolSize(SelectionOdds(gm.out))

\* the weighted list of the configured branch was built
ConfiguredDraw == AutoSelected /\ gm.call.use_config /\ gm.out.auto

Preferred(s) == Count(config.prefer_sources, s) > 0

-----------------------------------------------------------------------------
(* The probability gate, under SpecGate.  Draws and probabilities are in     *)
(* tenths; random.random() is in [0, 1), so a draw is below CertainProbability. *)

GateConsulted == op.name = "generate_message" /\ gm.call.use_config

\* what should_show_message returned to generate_message
Shown == gm.out.gate = "open"

\* C18: for an enabled event the gate is true for every draw at probability
\* 1.0, false for every draw at probability 0.0 and, in between, true exactly
\* when the draw is below the probability; for a disabled event it is false.
C18_ProbabilityGate ==
  GateConsulted =>
    LET e == config.events[gm.call.event_type]
    IN /\ ~e.enabled => ~Shown
       /\ (e.enabled /\ e.probability = CertainProbability) => Shown
       /\ (e.enabled /\ e.probability = 0) => ~Shown
       /\ e.enabled => (Shown <=> gm.draw < e.probability)

\* a draw equal to the probability of an enabled event does not pass
C18_Witness ==
  /\ GateConsulted
  /\ config.events[gm.call.event_type].enabled
  /\ config.events[gm.call.event_type].probability = 5
  /\ gm.draw = 5
  /\ ~Shown

-----------------------------------------------------------------------------
(* _apply_config_formatting over every short string, emojis on and off,     *)
(* every max_length up to the longest string.                               *)

MaxText == 3

Chars == {"a", "e", "k", "u", " "}

Texts == UNION {[1..n -> Chars] : n \in 1..MaxText}

\* what a provider, generate_with_ollama (enhanced) or a table hands to
\* _apply_config_formatting: a non-empty string
FormatMessages == {Msg("any", "", t, enh) : t \in Texts, enh \in BOOLEAN}

\* a configuration with display.max_length (Config.get_max_message_length)
WithMaxLength(cfg, n) ==
  [f \in DOMAIN cfg \cup {"max_length"} |-> IF f = "max_length" THEN n ELSE cfg[f]]

FormatConfigs ==
  {WithMaxLength(Cfg(TRUE, AllEvents(EventSetting(TRUE, CertainProbability)),
                     TRUE, EvenWeights, <<"default">>, TRUE, MaxCooldown, TRUE,
                     emojis), n) :
     emojis \in BOOLEAN, n \in 1..MaxText}

\* _apply_config_formatting(message, config); config is None without has_config
ApplyConfigFormatting(m, has_config) ==
  /\ op.name # "format"
  /\ result' = _apply_config_formatting(m, has_config, config)
  /\ raised' = "none"
  /\ op' = [name |-> "format", message |-> m, has_config |-> has_config]
  /\ UNCHANGED <<hookVars, now, cacheVars, rlVars, genVars>>

\* generate_message returns what it got
FormatReturn ==
  /\ op.name = "format"
  /\ op' = [name |-> "return"]
  /\ result' = None
  /\ raised' = "none"
  /\ UNCHANGED <<hookVars, now, cacheVars, rlVars, genVars>>

InitFormat ==
  /\ now = 0
  /\ op = [name |-> "init"]
  /\ result = None
  /\ raised = "none"
  /\ CacheIdle
  /\ RateLimiterIdle
  /\ config \in FormatConfigs
  /\ gm = IdleCall
  /\ HookIdle
  /\ last_jw = -1

NextFormat ==
  \/ FormatReturn
  \/ \E m \in FormatMessages, has_config \in BOOLEAN : ApplyConfigFormatting(m, has_config)

SpecFormat == InitFormat /\ [][NextFormat]_vars

\* an emoji code point, inside the ranges of the pattern or not
IsEmoji(c) == c \in {"e", "u"}

\* C19 as stated: with emojis switched off the formatted message holds no
\* emoji and is the message without its emojis, in order, trimmed at both
\* ends; with emojis on, or without configuration, it is the message.
C19_EmojiStripping ==
  op.name = "format" =>
    IF op.has_config /\ ~config.include_emojis
      THEN /\ \A i \in DOMAIN result.text : ~IsEmoji(result.text[i])
           /\ result.text
                = strip(SelectSeq(op.message.text, LAMBDA c : ~IsEmoji(c)))
    ELSE result = op.message

\* C20 as stated: a formatted message that the enhancement step did not
\* produce is no longer than max_length; an enhanced one keeps its length.
C20_LengthCap ==
  (op.name = "format" /\ op.has_config) =>
    /\ ~op.message.enhanced => Len(result.text) <= config.max_length
    /\ (op.message.enhanced /\ config.include_emojis) => result = op.message

-----------------------------------------------------------------------------
(* Enhancement fallback of the three providers, over content items *)

\* the literal slice lengths of the formatted messages
JOKE_CAP == 100
QUOTE_CAP == 80
STOIC_CAP == 100
STOIC_KEEP == 97
TITLE_CAP == 50

\* A text is known by its length: every slice taken here is a prefix of the
\* item's own text.  s[:n]
Slice(len, n) == IF len > n THEN n ELSE len

TextLengths == {1, TITLE_CAP, TITLE_CAP + 1, QUOTE_CAP, QUOTE_CAP + 1,
                STOIC_KEEP, JOKE_CAP, JOKE_CAP + 1}

\* what get_random_content returns: {"content", "type", "source"} for a joke,
\* with "author" for a quote; the content is a string, or a truthy JSON
\* value that is no string
ContentItems ==
  [type : {"joke", "quote"}, str : {TRUE}, len : TextLengths]
    \cup [type : {"joke"}, str : {FALSE}, len : {1}]

\* what get_stoic_quote returns, an entry of STOIC_QUOTES (text and author)
StoicQuotes == [len : TextLengths]

\* the dict fetch_daily_text builds: scripture extracted or not, title length
DailyTexts == [scripture : BOOLEAN, title : {0, TITLE_CAP, TITLE_CAP + 1}]

\* a formatted string: the f-string it came from, the length of the item's
\* text inside it, and the text ollama wrote, if any
Text(template, len, line) == [template |-> template, len |-> len, line |-> line]

Returned(value) == [raised |-> "none", value |-> value]
\* no string: the call raised
NoText == Text("", 0, << >>)
Raises(exc) == [raised |-> exc, value |-> NoText]

\* the f-strings of external_apis lines 234-237 and 268-272
ExternalTemplate(content) ==
  IF ~content.str THEN Raises("TypeError")
  ELSE IF content.type = "joke"
    THEN Returned(Text("joke", Slice(content.len, JOKE_CAP), << >>))
  ELSE Returned(Text("quote", Slice(content.len, QUOTE_CAP), << >>))

\* external_apis.enhance_with_ollama
enhance_with_ollama(content, o) ==
  IF OllamaText(o).ok THEN Returned(Text("ollama", 0, OllamaText(o).text))
  ELSE ExternalTemplate(content)

\* external_apis.generate_external_message from "if use_ollama:" on
ExternalMessage(content, use_ollama, o) ==
  IF use_ollama THEN enhance_with_ollama(content, o)
  ELSE ExternalTemplate(content)

\* jw_daily_text.create_developer_encouragement on a daily text
DeveloperEncouragement(daily_text, use_ollama, o) ==
  IF use_ollama /\ OllamaText(o).ok
    THEN IF daily_text.scripture
           THEN Returned(Text("scripture_summary", 0, OllamaText(o).text))
         ELSE Returned(Text("summary", 0, OllamaText(o).text))
  ELSE IF daily_text.scripture THEN Returned(Text("scripture_reflect", 0, << >>))
  ELSE Returned(Text("title", Slice(daily_text.title, TITLE_CAP), << >>))

\* stoic_quotes.enhance_stoic_quote_with_ollama: no subprocess is run
enhance_stoic_quote_with_ollama(quote) ==
  IF quote.len > STOIC_CAP THEN Returned(Text("stoic_cut", STOIC_KEEP, << >>))
  ELSE Returned(Text("stoic", quote.len, << >>))

\* stoic_quotes.generate_pure_stoic_wisdom: the first line, or None
generate_pure_stoic_wisdom(o) == OllamaText(o)

\* stoic_quotes.generate_stoic_message on the quote get_stoic_quote drew;
\* pure is random.random() < pure_generation_ratio
StoicMessage(quote, use_ollama, pure, o) ==
  IF use_ollama /\ pure /\ generate_pure_stoic_wisdom(o).ok
       /\ Truthy(generate_pure_stoic_wisdom(o))
    THEN Returned(Text("ollama", 0, generate_pure_stoic_wisdom(o).text))
  ELSE IF use_ollama THEN enhance_stoic_quote_with_ollama(quote)
  ELSE Returned(Text("stoic", quote.len, << >>))

ProviderCalled(name, content, use_ollama, pure, o, out) ==
  /\ op.name \notin {"external", "jw", "stoic"}
  /\ op' = [name |-> name, content |-> content, use_ollama |-> use_ollama,
            pure |-> pure, o |-> o]
  /\ result' = out.value
  /\ raised' = out.raised
  /\ UNCHANGED <<hookVars, now, cacheVars, rlVars, genVars>>

GenerateExternalMessage(content, use_ollama, o) ==
  ProviderCalled("external", content, use_ollama, FALSE, o,
                 ExternalMessage(content, use_ollama, o))

CreateDeveloperEncouragement(daily_text, use_ollama, o) ==
  ProviderCalled("jw", daily_text, use_ollama, FALSE, o,
                 DeveloperEncouragement(daily_text, use_ollama, o))

GenerateStoicMessage(quote, use_ollama, pure, o) ==
  ProviderCalled("stoic", quote, use_ollama, pure, o,
                 StoicMessage(quote, use_ollama, pure, o))

\* the caller takes the message
ProviderReturn ==
  /\ op.name \in {"external", "jw", "stoic"}
  /\ op' = [name |-> "return"]
  /\ result' = None
  /\ raised' = "none"
  /\ UNCHANGED <<hookVars, now, cacheVars, rlVars, genVars>>

InitEnhance ==
  /\ now = 0
  /\ op = [name |-> "init"]
  /\ result = None
  /\ raised = "none"
  /\ CacheIdle
  /\ RateLimiterIdle
  /\ GenIdle
  /\ HookIdle

NextEnhance ==
  \/ ProviderReturn
  \/ \E c \in ContentItems, use_ollama \in BOOLEAN, o \in OllamaOutcomes :
       GenerateExternalMessage(c, use_ollama, o)
  \/ \E d \in DailyTexts, use_ollama \in BOOLEAN, o \in OllamaOutcomes :
       CreateDeveloperEncouragement(d, use_ollama, o)
  \/ \E q \in StoicQuotes, use_ollama \in BOOLEAN, pure \in BOOLEAN,
        o \in OllamaOutcomes :
       GenerateStoicMessage(q, use_ollama, pure, o)

SpecEnhance == InitEnhance /\ [][NextEnhance]_vars

\* what the provider of the call in op returns for op's content without
\* enhancement
Unenhanced ==
  CASE op.name = "external" -> ExternalMessage(op.content, FALSE, op.o)
    [] op.name = "jw" -> DeveloperEncouragement(op.content, FALSE, op.o)
    [] op.name = "stoic" -> StoicMessage(op.content, FALSE, op.pure, op.o)

\* C21 as stated: a provider asked to enhance whose ollama step timed out,
\* exited non-zero or was not installed returns (or raises) exactly what it
\* does for the same content without enhancement.
C21_EnhancementAdditive ==
  (op.name \in {"external", "jw", "stoic"} /\ op.use_ollama
     /\ op.o.kind \in OllamaFailures)
    => (result = Unenhanced.value /\ raised = Unenhanced.raised)

-----------------------------------------------------------------------------
(* APIClient._get_cache_key on urls and parameter dicts as written *)

\* strings are sequences of characters
KeyUrls == {<<"u">>, <<"v">>, <<"u", "{", "a", ":", "1", "}">>}
ParamNames == {"a", "b"}
ParamValues == {"1", "2"}

\* code point order of the parameter names
Ord(c) == IF c = "a" THEN 1 ELSE 2

\* a dict in the order its items were written; no name twice
ParamItems ==
  {<< >>} \cup {<<<<k, v>>>> : k \in ParamNames, v \in ParamValues}
    \cup {s \in {<<<<k1, v1>>, <<k2, v2>>>> :
                    k1 \in ParamNames, k2 \in ParamNames,
                    v1 \in ParamValues, v2 \in ParamValues} : s[1][1] # s[2][1]}

\* the params argument: None, or a dict
NoParams == [given |-> FALSE, items |-> << >>]
ParamDicts == {NoParams} \cup [given : {TRUE}, items : ParamItems]

\* sorted(items) by key
RECURSIVE SortItems(_)
SortItems(items) ==
  IF items = << >> THEN << >>
  ELSE LET least == CHOOSE i \in DOMAIN items :
                      \A j \in DOMAIN items : Ord(items[i][1]) <= Ord(items[j][1])
           rest  == SelectSeq(items, LAMBDA it : it # items[least])
       IN <<items[least]>> \o SortItems(rest)

RECURSIVE JoinItems(_)
JoinItems(items) ==
  IF items = << >> THEN << >>
  ELSE <<items[1][1], ":", items[1][2]>>
         \o (IF Len(items) > 1 THEN <<",">> ELSE << >>)
         \o JoinItems(Tail(items))

\* json.dumps(params) without sort_keys: the items in the order written
json_dumps_unsorted(params) == <<"{">> \o JoinItems(params.items) \o <<"}">>

\* json.dumps(params, sort_keys=True)
json_dumps(params) == <<"{">> \o JoinItems(SortItems(params.items)) \o <<"}">>

\* hashlib.md5(s.encode()).hexdigest(): one digest per string (two strings
\* of this size with one digest are not modelled)
md5(s) == <<"md5", s>>

\* APIClient._get_cache_key; "if params:" is false for None and for {}
GetCacheKey(url, params) ==
  md5(IF params.given /\ params.items # << >>
        THEN url \o json_dumps(params) ELSE url)

NoKeyCall == [url |-> << >>, params |-> NoParams, key |-> md5(<< >>)]

\* one call of _get_cache_key; op keeps the call before it
CacheKeyCall(url, params) ==
  /\ op' = [name |-> "_get_cache_key", url |-> url, params |-> params,
            prev |-> IF op.name = "_get_cache_key"
                       THEN [url |-> op.url, params |-> op.params, key |-> result]
                     ELSE NoKeyCall,
            first |-> op.name # "_get_cache_key"]
  /\ result' = GetCacheKey(url, params)
  /\ raised' = "none"
  /\ UNCHANGED <<hookVars, now, cacheVars, rlVars, genVars>>

InitKeys ==
  /\ now = 0
  /\ op = [name |-> "init"]
  /\ result = None
  /\ raised = "none"
  /\ CacheIdle
  /\ RateLimiterIdle
  /\ GenIdle
  /\ HookIdle

NextKeys == \E url \in KeyUrls, params \in ParamDicts : CacheKeyCall(url, params)

SpecKeys == InitKeys /\ [][NextKeys]_vars

\* the two dicts hold the same items
SameParams(p, q) ==
  /\ p.given = q.given
  /\ {p.items[i] : i \in DOMAIN p.items} = {q.items[i] : i \in DOMAIN q.items}

TwoKeyCalls == op.name = "_get_cache_key" /\ ~op.first

\* C22: two calls with one url and the same parameters in any order give one
\* key; two calls with different urls and the same parameters give two keys,
\* and so do a call with parameters and a call with the same url and none.
C22_CacheKeyDeterminism ==
  TwoKeyCalls =>
    /\ (op.url = op.prev.url /\ SameParams(op.params, op.prev.params))
         => result = op.prev.key
    /\ (op.url # op.prev.url /\ SameParams(op.params, op.prev.params))
         => result # op.prev.key
    /\ (op.url = op.prev.url /\ op.params.items # << >>
          /\ op.prev.params.items = << >>)
         => result # op.prev.key

\* two calls with two parameters each, written in opposite orders
C22_Witness ==
  /\ TwoKeyCalls
  /\ op.url = op.prev.url
  /\ Len(op.params.items) = 2
  /\ op.params.items # op.prev.params.items
  /\ SameParams(op.params, op.prev.params)
  /\ result = op.prev.key

-----------------------------------------------------------------------------
(* The rate limiter and its state file (lib/rate_limiter.py) *)

\* clock ticks in a minute, where the state file is followed
TicksPerMinute == 2

\* timedelta(minutes=m), in clock ticks
timedelta(minutes) == minutes * TicksPerMinute

\* an int in place of Optional[int]
NoWait == [none |-> TRUE, minutes |-> 0]
Wait(m) == [none |-> FALSE, minutes |-> m]

\* get_time_until_available that rounds the remaining minutes up
get_time_until_available_ceil(state, content_type, cooldown_minutes, t) ==
  LET key == last_shown_key(content_type)
  IN IF key \notin DOMAIN state THEN NoWait
     ELSE IF state[key].kind # "datetime" THEN NoWait
     ELSE IF t - state[key].t >= timedelta(cooldown_minutes) THEN NoWait
     ELSE Wait((timedelta(cooldown_minutes) - (t - state[key].t)
                  + TicksPerMinute - 1) \div TicksPerMinute)

\* RateLimiter.get_time_until_available;
\* int(remaining.total_seconds() / 60) of a positive remaining
get_time_until_available(state, content_type, cooldown_minutes, t) ==
  LET key == last_shown_key(content_type)
  IN IF key \notin DOMAIN state THEN NoWait
     ELSE IF state[key].kind # "datetime" THEN NoWait
     ELSE IF t - state[key].t >= timedelta(cooldown_minutes) THEN NoWait
     ELSE Wait((timedelta(cooldown_minutes) - (t - state[key].t))
                  \div TicksPerMinute)

\* reset that forgets every content type whatever its argument
reset_all(state, content_type) == EmptyDict

\* RateLimiter.reset, the new _state; content_type None is reset()
\* ("if content_type:" sends the empty string the same way; the content
\* types here are names)
reset(state, content_type) ==
  IF content_type # None
    THEN IF last_shown_key(content_type) \in DOMAIN state
           THEN DictDel(state, last_shown_key(content_type)) ELSE state
  ELSE EmptyDict

\* a process has a RateLimiter
HasLimiter ==
  /\ op.name # "init"
  /\ ~(op.name = "RateLimiter" /\ raised # "none")

\* RateLimiter(state_file) in a new process
Construct ==
  /\ rl_state' = _load_state(state_file).state
  /\ raised' = _load_state(state_file).raised
  /\ result' = None
  /\ op' = [name |-> "RateLimiter"]
  /\ UNCHANGED <<hookVars, now, cacheVars, last_mark, state_file, genVars>>

LimiterMarkShown(content_type, w) == HasLimiter /\ MarkShown(content_type, w)

Reset(content_type, w) ==
  /\ HasLimiter
  /\ rl_state' = reset(rl_state, content_type)
  /\ state_file' = _save_state(rl_state', state_file, w).file
  /\ raised' = _save_state(rl_state', state_file, w).raised
  /\ result' = None
  /\ op' = [name |-> "reset", content_type |-> content_type, write |-> w,
            before |-> rl_state]
  /\ UNCHANGED <<hookVars, now, cacheVars, last_mark, genVars>>

\* a caller asks should_show and get_time_until_available at one instant
Availability(content_type, cooldown_minutes) ==
  /\ HasLimiter
  /\ result' = [should_show |-> should_show(rl_state, content_type,
                                            timedelta(cooldown_minutes), now),
                time_until |-> get_time_until_available(rl_state, content_type,
                                                        cooldown_minutes, now)]
  /\ raised' = "none"
  /\ op' = [name |-> "availability", content_type |-> content_type,
            cooldown_minutes |-> cooldown_minutes]
  /\ UNCHANGED <<hookVars, now, cacheVars, rlVars, genVars>>

InitStateFiles ==
  {NoStateFile, StateFile("garbage", EmptyDict), StateFile("undecodable", EmptyDict),
   StateFile("scalar", EmptyDict), StateFile("empty_list", EmptyDict),
   StateFile("dict", [k \in {last_shown_key("jw_daily_text"), last_shown_key("other")}
                        |-> IF k = last_shown_key("other")
                              THEN IsoString(0) ELSE InvalidTimestamp])}

InitLimiterFile ==
  /\ now = 0
  /\ op = [name |-> "init"]
  /\ result = None
  /\ raised = "none"
  /\ CacheIdle
  /\ rl_state = EmptyDict
  /\ last_mark = [ct \in ContentTypes |-> -1]
  /\ state_file \in InitStateFiles
  /\ GenIdle
  /\ HookIdle

NextLimiterFile ==
  \/ HasLimiter /\ Tick
  \/ Construct
  \/ \E ct \in ContentTypes, w \in WriteOutcomes : LimiterMarkShown(ct, w)
  \/ \E ct \in ContentTypes \cup {None}, w \in WriteOutcomes : Reset(ct, w)
  \/ \E ct \in ContentTypes, c \in 1..MaxCooldown : Availability(ct, c)

SpecLimiterFile == InitLimiterFile /\ [][NextLimiterFile]_vars

\* what a RateLimiter constructed now on the state file would hold
Reloaded == _load_state(state_file)

\* C23: after a mark_shown whose write of the state file worked, a
\* RateLimiter constructed on the file holds the same timestamp for every
\* content type and answers should_show as this one does; a mark_shown whose
\* write failed returns without raising, the timestamp set in memory.
C23_PersistenceRoundTrip ==
  /\ (op.name = "mark_shown" /\ op.write = "written") =>
        /\ Reloaded.raised = "none"
        /\ Reloaded.state = rl_state
        /\ \A ct \in ContentTypes, c \in 0..MaxCooldown :
             should_show(Reloaded.state, ct, timedelta(c), now)
               = should_show(rl_state, ct, timedelta(c), now)
  /\ (op.name = "mark_shown" /\ op.write \in {"open_fails", "dump_fails"}) =>
        /\ raised = "none"
        /\ last_shown_key(op.content_type) \in DOMAIN rl_state
        /\ rl_state[last_shown_key(op.content_type)] = Timestamp(now)

\* a mark_shown written out while the other content type holds an earlier
\* timestamp
C23_Witness ==
  /\ op.name = "mark_shown" /\ op.write = "written"
  /\ op.content_type = "jw_daily_text"
  /\ last_shown_key("other") \in DOMAIN rl_state
  /\ rl_state[last_shown_key("other")].kind = "datetime"
  /\ rl_state[last_shown_key("other")].t < now
  /\ state_file.data[last_shown_key("jw_daily_text")] = IsoString(now)

\* C24 as stated: constructing a RateLimiter raises nothing whatever the
\* state file holds; every ISO-8601 entry of the file is kept and every other
\* entry does no harm; should_show is true for a content type whose entry is
\* missing or no ISO-8601 timestamp.
C24_PermissiveOnBadState ==
  op.name = "RateLimiter" =>
    /\ raised = "none"
    /\ \A k \in DOMAIN state_file.data :
         state_file.data[k].kind = "iso"
           => (k \in DOMAIN rl_state /\ rl_state[k] = Timestamp(state_file.data[k].t))
    /\ \A ct \in ContentTypes, c \in 0..MaxCooldown :
         (last_shown_key(ct) \notin DOMAIN state_file.data
            \/ state_file.data[last_shown_key(ct)].kind # "iso")
           => should_show(rl_state, ct, timedelta(c), now)

\* time since the recorded timestamp of the call's content type, in ticks
Elapsed == now - rl_state[last_shown_key(op.content_type)].t

ResetTypes == IF op.content_type # None THEN {op.content_type} ELSE ContentTypes

-----------------------------------------------------------------------------
(* SpecPersist: clients in persistent mode on one cache directory, with     *)
(* file operations that fail and files an interrupted write left behind    *)

\* a process has an APIClient
HasClient ==
  /\ op.name # "init"
  /\ ~(op.name = "APIClient" /\ raised # "none")

\* APIClient(persistent_cache=True) in a new process: __init__ runs
\* _load_persistent_cache; F is the set of keys whose file cannot be opened
NewClient(F) ==
  LET o == _load_persistent_cache(disk, now, F)
  IN /\ cache' = o.cache
     /\ disk' = o.disk
     /\ result' = None
     /\ raised' = o.raised
     /\ op' = [name |-> "APIClient", F |-> F]
     /\ UNCHANGED <<hookVars, now, persistent_cache, cache_ttl_minutes, stored, rlVars,
                    genVars>>

\* the stores before the first process are not known
StoredBefore == [at |-> -2, data |-> None]

Key1 == _get_cache_key("u1", "")
Key2 == _get_cache_key("u1", "a=1")

\* what the directory holds when the first client starts
InitDisks ==
  {EmptyDict,
   [k \in {Key1} |-> CacheEntry("d1", -1)],
   [k \in {Key1} |-> CacheEntry("d1", 1)],
   [k \in {Key1, Key2} |-> IF k = Key1 THEN CacheEntry("d2", 1)
                           ELSE [kind |-> "garbage", data |-> None, expires_at |-> 0]],
   [k \in {Key2} |-> [kind |-> "truncated", data |-> None, expires_at |-> 0]]}

InitPersist ==
  /\ now = 0
  /\ op = [name |-> "init"]
  /\ result = None
  /\ raised = "none"
  /\ cache = EmptyDict
  /\ disk \in InitDisks
  /\ persistent_cache = TRUE
  /\ cache_ttl_minutes = 1
  /\ stored = [k \in CacheKeys |-> StoredBefore]
  /\ RateLimiterIdle
  /\ GenIdle
  /\ HookIdle

\* the file operations of a call all work, or all raise IOError
FileFailures == {{}, CacheKeys}

PersistOutcomes ==
  {out \in TransportOutcomes :
     /\ out.kind = "raise" => out.data = "Timeout"
     /\ out.kind = "json" => out.data = "d1"}

NextPersist ==
  \/ HasClient /\ Tick
  \/ \E F \in FileFailures : NewClient(F)
  \/ \E key \in CacheKeys, F \in FileFailures : HasClient /\ GetFromCache(key, F)
  \/ \E F \in FileFailures : HasClient /\ ClearCache(F)
  \/ \E url \in Urls, params \in ParamForms, out \in PersistOutcomes,
        F \in FileFailures : HasClient /\ Get(url, params, TRUE, out, F)

SpecPersist == InitPersist /\ [][NextPersist]_vars

\* C27 as stated: between the operations of a client in persistent mode,
\* whatever file operations failed, a key with a memory entry and a cache
\* file has one expires_at in both.
C27_MemoryDiskAgreement ==
  (persistent_cache /\ HasClient) =>
    \A k \in (DOMAIN cache) \cap (DOMAIN disk) :
      disk[k].kind = "entry" => disk[k].expires_at = cache[k].expires_at

\* C28: a client constructed on the directory holds every readable entry
\* file that is unexpired, so that get returns its data, as long as it is
\* unexpired, with no transport request; the entry files found expired are
\* deleted and not loaded.
C28_PersistentAcrossProcesses ==
  [][ (op'.name = "APIClient" /\ raised' = "none") =>
        \A k \in DOMAIN disk :
          (disk[k].kind = "entry" /\ k \notin op'.F) =>
            IF ~is_expired(disk[k], now)
              THEN /\ k \in DOMAIN cache'
                   /\ cache'[k] = disk[k]
                   /\ \A t \in now..MaxTime, out \in PersistOutcomes :
                        (~is_expired(disk[k], t) /\ disk[k].data # None) =>
                          LET g == get(cache', disk', k, TRUE, out, t,
                                       cache_ttl_minutes, {}, TRUE)
                          IN g.raised = "none" /\ g.ret = disk[k].data /\ ~g.sent
            ELSE k \notin DOMAIN cache' /\ k \notin DOMAIN disk' ]_vars

\* a client started after the store of another one, the entry in its memory
C28_Witness ==
  /\ op.name = "APIClient" /\ raised = "none" /\ op.F = {}
  /\ stored[Key1].at >= 0
  /\ stored[Key1].at < now
  /\ Key1 \in DOMAIN cache
  /\ cache[Key1].data = stored[Key1].data
  /\ cache[Key1].expires_at = stored[Key1].at + cache_ttl_minutes

\* C29: after a clear_cache whose deletions worked the memory map is empty
\* and the directory holds no cache file; from then until the next store of
\* a key, _get_from_cache of the key returns None and get sends a request.
C29_ClearCache ==
  [][ /\ (op'.name = "clear_cache" /\ op'.F = {}) =>
           (cache' = EmptyDict /\ disk' = EmptyDict)
      /\ (op'.name = "_get_from_cache" /\ stored[op'.key] = NoStore) =>
           (result' = None /\ raised' = "none")
      /\ (op'.name = "get" /\ stored[op'.key] = NoStore) => op'.sent ]_vars

\* clear_cache of a client with entries of both keys in memory and on disk
C29_Witness ==
  /\ op.name = "clear_cache" /\ op.F = {}
  /\ op.cleared = CacheKeys
  /\ cache = EmptyDict /\ disk = EmptyDict
  /\ \A k \in CacheKeys : stored[k] = NoStore

\* C30: no failure to read, deserialize, write or delete a cache file makes
\* APIClient(), get, a cache lookup or clear_cache raise; a fetched value is
\* in the memory map and returned whether or not its file could be written.
C30_CachingNeverRaises ==
  /\ op.name \in {"APIClient", "_get_from_cache", "get", "clear_cache"} =>
       raised = "none"
  /\ (op.name = "get" /\ op.use_cache /\ op.sent /\ op.failure = "none") =>
       /\ op.key \in DOMAIN cache
       /\ cache[op.key].data = result

-----------------------------------------------------------------------------
(* SpecRace: two hook invocations, each its own process, on the same state  *)
(* file and cache directory.  An invocation builds its RateLimiter          *)
(* (_load_state) and its persistent APIClient (_load_persistent_cache),     *)
(* looks the daily text up, fetches and stores it on a miss, and marks the  *)
(* content shown.  open(path, 'w') empties the file; the content reaches    *)
(* it when the with block closes the handle, so another process can run     *)
(* between the two.                                                         *)

Invocations == {1, 2}

\* the payload the request of invocation p returns
Fetched(p) == IF p = 1 THEN "d1" ELSE "d2"

Invocation(pc, state, c, exc) ==
  [pc |-> pc, state |-> state, cache |-> c, raised |-> exc]

\* where an invocation goes after a step that may raise
After(exc, pc) == IF exc = "none" THEN pc ELSE "failed"

Size(data) == Cardinality(DOMAIN data)

\* open(self.state_file, 'w'): the file is there and empty
OpenedStateFile == StateFile("garbage", EmptyDict)

\* open(cache_file, 'wb'): the file is there and empty
OpenedCacheFile == [kind |-> "truncated", data |-> None, expires_at |-> 0]

\* json.dump and close on a handle opened earlier: the text lands at offset
\* 0 of what the file holds by then; behind a shorter text the tail of a
\* longer one stays, and the file is no JSON document
dump_state(state, file) ==
  IF Size(file.data) > Size(state) THEN StateFile("garbage", file.data)
  ELSE _save_state(state, file, "written").file

\* the same write taken as one step that replaces the file
dump_state_whole(state, file) == _save_state(state, file, "written").file

RaceStep(p, name, next) ==
  /\ inv' = [inv EXCEPT ![p] = next]
  /\ op' = [name |-> name, p |-> p]
  /\ UNCHANGED <<now, result, raised, cache, persistent_cache,
                 cache_ttl_minutes, stored, rl_state, last_mark, genVars,
                 hook, last_run>>

\* RateLimiter.__init__
RaceLoadState(p) ==
  LET o == _load_state(state_file)
  IN /\ inv[p].pc = "start"
     /\ RaceStep(p, "RateLimiter",
                 Invocation(After(o.raised, "limiter"), o.state, EmptyDict, o.raised))
     /\ UNCHANGED <<state_file, disk>>

\* APIClient.__init__ in persistent mode
RaceNewClient(p) ==
  LET o == _load_persistent_cache(disk, now, {})
  IN /\ inv[p].pc = "limiter"
     /\ RaceStep(p, "APIClient",
                 Invocation(After(o.raised, "client"), inv[p].state, o.cache, o.raised))
     /\ disk' = o.disk
     /\ UNCHANGED state_file

\* get, up to the answer of _get_from_cache
RaceLookup(p) ==
  LET o == _get_from_cache(inv[p].cache, disk, Key1, now, {}, TRUE)
  IN /\ inv[p].pc = "client"
     /\ RaceStep(p, "_get_from_cache",
                 Invocation(After(o.raised, IF o.ret # None THEN "hit" ELSE "miss"),
                            inv[p].state, o.cache, o.raised))
     /\ disk' = o.disk
     /\ UNCHANGED state_file

\* _add_to_cache of the fetched payload, up to open(cache_file, 'wb')
RaceOpenCacheFile(p) ==
  /\ inv[p].pc = "miss"
  /\ RaceStep(p, "open_cache_file",
              Invocation("cache_open", inv[p].state,
                         DictSet(inv[p].cache, Key1,
                                 CacheEntry(Fetched(p), now + cache_ttl_minutes)),
                         "none"))
  /\ disk' = DictSet(disk, Key1, OpenedCacheFile)
  /\ UNCHANGED state_file

\* pickle.dump and close; pickle.load stops at the end of the first pickle,
\* so what a longer one left behind it does not show
RaceDumpCacheFile(p) ==
  /\ inv[p].pc = "cache_open"
  /\ RaceStep(p, "dump_cache_file", [inv[p] EXCEPT !.pc = "hit"])
  /\ disk' = DictSet(disk, Key1, inv[p].cache[Key1])
  /\ UNCHANGED state_file

\* mark_shown("jw_daily_text"), up to open(self.state_file, 'w')
RaceOpenStateFile(p) ==
  /\ inv[p].pc = "hit"
  /\ IF IsDict(inv[p].state)
       THEN /\ RaceStep(p, "open_state_file",
                        [inv[p] EXCEPT !.pc = "state_open",
                                       !.state = mark_shown(@, "jw_daily_text", now)])
            /\ state_file' = OpenedStateFile
       ELSE /\ RaceStep(p, "open_state_file",
                        [inv[p] EXCEPT !.pc = "failed", !.raised = "TypeError"])
            /\ UNCHANGED state_file
  /\ UNCHANGED disk

\* json.dump and close
RaceDumpStateFile(p) ==
  /\ inv[p].pc = "state_open"
  /\ RaceStep(p, "dump_state_file", [inv[p] EXCEPT !.pc = "done"])
  /\ state_file' = dump_state(inv[p].state, state_file)
  /\ UNCHANGED disk

RaceTick ==
  /\ now < MaxTime
  /\ now' = now + 1
  /\ op' = [name |-> "tick"]
  /\ UNCHANGED <<hookVars, result, raised, cacheVars, rlVars, genVars>>

\* the state files and cache directories earlier invocations left
RaceStateFiles ==
  {NoStateFile,
   StateFile("dict", [k \in {last_shown_key("other")} |-> IsoString(0)])}

RaceDisks ==
  {EmptyDict, [k \in {Key1} |-> CacheEntry("d1", 0)]}

InitRace ==
  /\ now = 0
  /\ op = [name |-> "init"]
  /\ result = None
  /\ raised = "none"
  /\ cache = EmptyDict
  /\ disk \in RaceDisks
  /\ persistent_cache = TRUE
  /\ cache_ttl_minutes = 1
  /\ stored = [k \in CacheKeys |-> NoStore]
  /\ rl_state = EmptyDict
  /\ last_mark = [ct \in ContentTypes |-> -1]
  /\ state_file \in RaceStateFiles
  /\ GenIdle
  /\ inv = [p \in Invocations |-> Invocation("start", EmptyDict, EmptyDict, "none")]
  /\ hook = IdleHook
  /\ last_run = NoLastRun

NextRace ==
  \/ RaceTick
  \/ \E p \in Invocations : RaceLoadState(p)
  \/ \E p \in Invocations : RaceNewClient(p)
  \/ \E p \in Invocations : RaceLookup(p)
  \/ \E p \in Invocations : RaceOpenCacheFile(p)
  \/ \E p \in Invocations : RaceDumpCacheFile(p)
  \/ \E p \in Invocations : RaceOpenStateFile(p)
  \/ \E p \in Invocations : RaceDumpStateFile(p)

SpecRace == InitRace /\ [][NextRace]_vars

AllOver == \A p \in Invocations : inv[p].pc \in {"done", "failed"}

\* the state file one invocation's _save_state writes as a whole
WrittenBy(p) == dump_state_whole(inv[p].state, NoStateFile)

\* C31: with two invocations racing on the state file and the cache
\* directory, neither fails; once both are over a later invocation loads
\* both files without an exception, the state file is the whole write of
\* one of the two and the cache file holds the entry one of them stored or
\* the one that was there before.
C31_LastWriterWins ==
  /\ \A p \in Invocations : inv[p].raised = "none"
  /\ AllOver =>
       /\ _load_state(state_file).raised = "none"
       /\ _load_persistent_cache(disk, now, {}).raised = "none"
       /\ \E p \in Invocations : state_file = WrittenBy(p)
       /\ \A k \in DOMAIN disk :
            \/ \E d \in RaceDisks : k \in DOMAIN d /\ disk[k] = d[k]
            \/ \E p \in Invocations : k \in DOMAIN inv[p].cache /\ disk[k] = inv[p].cache[k]

-----------------------------------------------------------------------------
(* The hook scripts (hooks/sessionstart.py, hooks/notification.py,          *)
(* hooks/stop.py).  One script runs per event, as a process of its own: it  *)
(* reads the event from stdin, may call generate_message once, writes to    *)
(* stdout and ends with an exit status.  Where the hooks are followed one   *)
(* clock tick is a second.                                                  *)

HookNames == {"sessionstart", "notification", "stop"}

\* the event a script serves
EventOf(h) ==
  CASE h = "sessionstart" -> "SessionStart"
    [] h = "notification" -> "Notification"
    [] h = "stop"         -> "Stop"

\* stdin: a JSON object with hook_event_name, stop_hook_active and message,
\* a JSON document that is no object, or text that is no JSON
Stdin(kind, event, active, message) ==
  [kind |-> kind, hook_event_name |-> event, stop_hook_active |-> active,
   message |-> message]

NotificationTexts == {"waiting", "other"}

Stdins ==
  {Stdin("object", ev, FALSE, "waiting") : ev \in Events}
  \cup {Stdin("object", "Stop", TRUE, "waiting"),
        Stdin("object", "Notification", FALSE, "other"),
        Stdin("not_object", None, FALSE, "other"),
        Stdin("not_json", None, FALSE, "other")}

\* json.load(sys.stdin) and input_data.get(...): the exception, or "none"
ReadStdin(stdin) ==
  CASE stdin.kind = "object"     -> "none"
    [] stdin.kind = "not_object" -> "AttributeError"
    [] stdin.kind = "not_json"   -> "JSONDecodeError"

\* the settings the scripts read besides those of generate_message:
\* mood_lifter_hooks.enabled, display.suppress_errors, whether lib.config
\* could be imported (CONFIG_AVAILABLE) and whether loading the user's
\* configuration file fails
HookCfg(cfg, enabled, suppress, available, load_fails) ==
  [f \in (DOMAIN cfg) \cup {"enabled", "suppress_errors", "config_available",
                            "load_fails"} |->
     CASE f = "enabled"          -> enabled
       [] f = "suppress_errors"  -> suppress
       [] f = "config_available" -> available
       [] f = "load_fails"       -> load_fails
       [] OTHER                  -> cfg[f]]

\* what a script writes: print(json.dumps(output)), print(message), and the
\* lines library code prints on its own
JsonLine(object) == [kind |-> "json", object |-> object]
PlainLine(message) == [kind |-> "text", message |-> message]
WarningLine(what) == [kind |-> "warning", what |-> what]

\* the SessionStart object with the flag off
format_hook_output_shown(message, event_type) ==
  IF event_type = "SessionStart"
    THEN [k \in {"suppressOutput", "systemMessage"} |->
            IF k = "suppressOutput" THEN [kind |-> "bool", value |-> FALSE]
            ELSE [kind |-> "str", value |-> message]]
  ELSE None

\* message_generator.format_hook_output
format_hook_output(message, event_type) ==
  IF event_type = "SessionStart"
    THEN [k \in {"suppressOutput", "systemMessage"} |->
            IF k = "suppressOutput" THEN [kind |-> "bool", value |-> TRUE]
            ELSE [kind |-> "str", value |-> message]]
  ELSE None

\* the dict the Stop script builds
StopOutput(message) ==
  [k \in {"systemMessage"} |-> [kind |-> "str", value |-> message]]

\* the three literals of hooks/stop.py
StopLiteral(which) == Msg(which, "Stop", <<"e", " ", "a">>, FALSE)

MIN_INTERVAL_SECONDS == 3

\* the file of the Stop script: str(current_time), absent, or other text
LastRun(t) == [kind |-> "time", t |-> t]
GarbageLastRun == [kind |-> "garbage"]

\* the throttle test of the Stop script; float() of other text raises and
\* the except leaves should_show True
stop_should_show_lenient(file, current_time) ==
  IF file.kind = "time" THEN ~(current_time - file.t < MIN_INTERVAL_SECONDS - 1)
  ELSE TRUE

stop_should_show(file, current_time) ==
  IF file.kind = "time" THEN ~(current_time - file.t < MIN_INTERVAL_SECONDS)
  ELSE TRUE

\* history: the latest display of the Stop script that followed the
\* throttle test, whether its timestamp was written, and the one before it
NoDisplay == [t |-> -1, written |-> FALSE, before |-> -1, before_written |-> FALSE]

\* ret and exc are what the script's call of generate_message gave
NotCalled == [ret |-> NoMsg, exc |-> "none"]

HookProc(name, stdin, pc, current_time, stdout, stderr, exit, called, loaded,
         shown, display) ==
  [name |-> name, stdin |-> stdin, pc |-> pc, current_time |-> current_time,
   stdout |-> stdout, stderr |-> stderr, exit |-> exit, called |-> called,
   loaded |-> loaded, shown |-> shown, last_display |-> display,
   got |-> NotCalled]

\* get_config() of lib.config: the first call of a process builds Config(),
\* whose _load_user_config prints a warning when the file cannot be loaded
ConfigLines(cfg, loaded) ==
  IF ~loaded /\ cfg.load_fails THEN <<WarningLine("config")>> ELSE << >>

\* except Exception as e: of sessionstart.py and notification.py
ExceptLines(cfg, h, exc) ==
  IF cfg.config_available /\ ~cfg.suppress_errors
    THEN <<[kind |-> "error", hook |-> h, exc |-> exc]>>
  ELSE << >>

\* sessionstart.py and notification.py up to the call of generate_message:
\* the position reached, the exit status, stdout and stderr
main_before(h, stdin, cfg) ==
  LET exc == ReadStdin(stdin)
      out == IF cfg.config_available THEN ConfigLines(cfg, FALSE) ELSE << >>
      at(pc, status, so, se) ==
        [pc |-> pc, exit |-> status, stdout |-> so, stderr |-> se,
         loaded |-> cfg.config_available]
  IN IF exc # "none" THEN at("exited", 0, out, ExceptLines(cfg, h, exc))
     ELSE IF stdin.hook_event_name # EventOf(h) THEN
       [pc |-> "exited", exit |-> 1, stdout |-> << >>, stderr |-> << >>,
        loaded |-> FALSE]
     ELSE IF cfg.config_available /\ ~cfg.enabled THEN at("exited", 0, out, << >>)
     ELSE IF h = "notification" /\ stdin.message \notin {"waiting", "permission"}
       THEN at("exited", 0, out, << >>)
     ELSE at("calling", 0, out, << >>)

\* stop.py up to the call of generate_message
stop_before(stdin, file, current_time) ==
  LET exc == ReadStdin(stdin)
      at(pc, status, so) ==
        [pc |-> pc, exit |-> status, stdout |-> so, stderr |-> << >>,
         loaded |-> FALSE]
  IN IF exc # "none"
       THEN at("exited", 0, <<JsonLine(StopOutput(StopLiteral("stop_error")))>>)
     ELSE IF stdin.hook_event_name # "Stop" THEN at("exited", 1, << >>)
     ELSE IF stdin.stop_hook_active THEN at("exited", 0, << >>)
     ELSE IF ~stop_should_show(file, current_time) THEN at("exited", 0, << >>)
     ELSE at("calling", 0, << >>)

\* the lines APIClient.get prints when a request of the provider fails
RequestLines(failed) == IF failed THEN <<WarningLine("request")>> ELSE << >>

\* whether the call made requests that can have failed: a joke or quote
\* provider tries several services in turn; the scripture provider makes
\* one request and hands back nothing when it failed
RequestFailures(o) ==
  IF o.provider \in {"joke", "quote"} THEN BOOLEAN
  ELSE IF o.provider = "jw" /\ o.raised = "none" /\ o.stage # "provider" THEN BOOLEAN
  ELSE {FALSE}

\* sessionstart.py and notification.py from the return of generate_message
main_after(h, cfg, ret, exc) ==
  IF exc # "none"
    THEN [stdout |-> << >>, stderr |-> ExceptLines(cfg, h, exc), shown |-> FALSE]
  ELSE IF ~Truthy(ret)
    THEN [stdout |-> << >>, stderr |-> << >>, shown |-> FALSE]
  ELSE IF h = "sessionstart"
    THEN [stdout |-> <<JsonLine(format_hook_output(ret, "SessionStart"))>>,
          stderr |-> << >>, shown |-> TRUE]
  ELSE [stdout |-> <<PlainLine(ret)>>, stderr |-> << >>, shown |-> TRUE]

\* stop.py from the return of generate_message to the print
stop_after(ret, exc) ==
  LET message == IF exc # "none" THEN StopLiteral("stop_raise")
                 ELSE IF ~Truthy(ret) THEN StopLiteral("stop_empty")
                 ELSE ret
  IN [stdout |-> <<JsonLine(StopOutput(message))>>, stderr |-> << >>,
      shown |-> TRUE]

\* the arguments of the script's call
HookCall(h, cfg) ==
  IF h = "stop" THEN Call("Stop", "None", None, TRUE)
  ELSE Call(EventOf(h), "None", None, cfg.config_available)

\* A script starts and runs to its exit or to its call of generate_message.
HookStart(h, stdin) ==
  LET b == IF h = "stop" THEN stop_before(stdin, last_run, now)
           ELSE main_before(h, stdin, config)
  IN /\ hook.pc = "exited"
     /\ hook' = HookProc(h, stdin, b.pc, now, b.stdout, b.stderr, b.exit,
                         b.pc = "calling", b.loaded, FALSE, hook.last_display)
     /\ op' = [name |-> "hook_start"]
     /\ result' = None
     /\ raised' = "none"
     /\ gm' = IdleCall
     /\ UNCHANGED <<now, cacheVars, rlVars, config, last_jw, inv, last_run>>

\* The script's call of generate_message.
HookGenerate(draw) ==
  /\ hook.pc = "calling"
  /\ op.name = "hook_start"
  /\ GenerateMessage(HookCall(hook.name, config), draw)

\* how the write of the timestamp file goes
LastRunWrites == {"written", "fails"}

\* The script from the return of generate_message to its exit.
HookFinish(failed, w) ==
  LET a == IF hook.name = "stop" THEN stop_after(result, raised)
           ELSE main_after(hook.name, config, result, raised)
      first == gm.call.use_config /\ config.api /\ ~hook.loaded
      lib == (IF first THEN ConfigLines(config, FALSE) ELSE << >>)
             \o RequestLines(failed)
      written == hook.name = "stop" /\ w = "written"
  IN /\ hook.pc = "calling"
     /\ op.name = "generate_message"
     /\ failed \in RequestFailures(gm.out)
     /\ hook.name # "stop" => w = "written"
     /\ hook' = [hook EXCEPT !.pc = "exited",
                             !.stdout = @ \o lib \o a.stdout,
                             !.stderr = @ \o a.stderr,
                             !.exit = 0,
                             !.shown = a.shown,
                             !.loaded = @ \/ first,
                             !.got = [ret |-> result, exc |-> raised],
                             !.last_display =
                                IF hook.name = "stop"
                                  THEN [t |-> hook.current_time, written |-> written,
                                        before |-> @.t, before_written |-> @.written]
                                ELSE @]
     /\ last_run' = IF written THEN LastRun(hook.current_time) ELSE last_run
     /\ op' = [name |-> "hook_exit", write |-> IF hook.name = "stop" THEN w ELSE "none"]
     /\ result' = None
     /\ raised' = "none"
     /\ gm' = IdleCall
     /\ UNCHANGED <<now, cacheVars, rlVars, config, last_jw, inv>>

HookTick == hook.pc = "exited" /\ Tick

HookEvents ==
  {EventSetting(TRUE, CertainProbability), EventSetting(FALSE, CertainProbability),
   EventSetting(TRUE, 5)}

\* installations: the scripture source is off, so the limiter state stays
\* as it is; the last one is an installation whose lib imports fail
HookBase(g) ==
  Cfg(TRUE, AllEvents(g), FALSE, EvenWeights, <<"default">>, FALSE, 0, TRUE, TRUE)

HookConfigs ==
  {HookCfg(HookBase(g), enabled, TRUE, TRUE, load_fails) :
     g \in HookEvents, enabled \in BOOLEAN, load_fails \in BOOLEAN}
  \cup {HookCfg(HookBase(EventSetting(TRUE, CertainProbability)), TRUE, FALSE, TRUE,
                FALSE)}
  \cup {HookCfg(Cfg(FALSE, AllEvents(EventSetting(TRUE, CertainProbability)), FALSE,
                    EvenWeights, <<"default">>, FALSE, 0, FALSE, TRUE),
                TRUE, TRUE, FALSE, FALSE)}

HookDraws == {4, 5}

InitLastRuns == {NoLastRun, LastRun(-1), GarbageLastRun}

InitHooks ==
  /\ now = 0
  /\ op = [name |-> "init"]
  /\ result = None
  /\ raised = "none"
  /\ CacheIdle
  /\ RateLimiterIdle
  /\ config \in HookConfigs
  /\ gm = IdleCall
  /\ last_jw = -1
  /\ inv = IdleInvocations
  /\ hook = HookProc("none", Stdin("not_json", None, FALSE, "other"), "exited", 0,
                     << >>, << >>, 0, FALSE, FALSE, FALSE, NoDisplay)
  /\ last_run \in InitLastRuns

NextHooks ==
  \/ HookTick
  \/ \E h \in HookNames, stdin \in Stdins : HookStart(h, stdin)
  \/ \E draw \in HookDraws : HookGenerate(draw)
  \/ \E failed \in BOOLEAN, w \in LastRunWrites : HookFinish(failed, w)

SpecHooks == InitHooks /\ [][NextHooks]_vars

-----------------------------------------------------------------------------
(* What the hook scripts leave behind *)

Exited == hook.pc = "exited" /\ hook.name # "none"

IsMessageLine(l) == l.kind \in {"json", "text"}

\* the lines of stdout that carry a message
MessageLines == SelectSeq(hook.stdout, IsMessageLine)

\* C32: every run of a hook script ends with exit status 0, whatever stdin
\* held and whatever generate_message returned or raised, and writes no
\* trace to stderr.
C32_ExitsZero ==
  Exited =>
    /\ hook.exit = 0
    /\ \A i \in DOMAIN hook.stderr : hook.stderr[i].kind = "error"

\* a run whose call of generate_message returned a non-empty message
GotMessage ==
  Exited /\ hook.called /\ hook.got.exc = "none" /\ Truthy(hook.got.ret)

\* what the SessionStart and Notification scripts write for a message, and
\* what format_hook_output is for the three events
SessionStartAndNotificationFormat ==
  /\ (GotMessage /\ hook.name = "sessionstart") =>
       /\ MessageLines = <<JsonLine(format_hook_output(hook.got.ret, "SessionStart"))>>
       /\ MessageLines[1].object["suppressOutput"] = [kind |-> "bool", value |-> TRUE]
       /\ MessageLines[1].object["systemMessage"] = [kind |-> "str", value |-> hook.got.ret]
  /\ (GotMessage /\ hook.name = "notification") =>
       MessageLines = <<PlainLine(hook.got.ret)>>
  /\ GotMessage =>
       /\ format_hook_output(hook.got.ret, "Stop") = None
       /\ format_hook_output(hook.got.ret, "Notification") = None

GotEmpty ==
  Exited /\ hook.called /\ hook.got.exc = "none" /\ hook.got.ret = EmptyString

\* C34: when generate_message returns the empty string the script of the
\* event, whichever of the three, writes no message to stdout.
C34_EmptyShowsNothing ==
  GotEmpty => MessageLines = << >>

\* a finished run under a configuration that was available and whose global
\* switch is off
SwitchedOff ==
  Exited /\ config.config_available /\ ~config.enabled

\* C38: with the global switch off no script writes a message and none calls
\* generate_message.
C38_DisabledIsSilent ==
  SwitchedOff => ~hook.called /\ MessageLines = << >>

\* C40: failures are silent: what a script leaves on stdout is nothing other
\* than its final message line; no error or warning text is written there.
C40_StdoutOnlyMessage ==
  Exited => \A i \in DOMAIN hook.stdout : IsMessageLine(hook.stdout[i])

(***************************************************************************)
(* The throttle of the Stop script                                         *)
(***************************************************************************)
\* a step in which the Stop script starts on a Stop event
StopStarts ==
  /\ hook.pc = "exited"
  /\ op'.name = "hook_start"
  /\ hook'.name = "stop"
  /\ hook'.stdin.kind = "object"
  /\ hook'.stdin.hook_event_name = "Stop"

\* the start is one the script skips: stop_hook_active is set, or the stored
\* time is less than three seconds back
StopSkips ==
  /\ StopStarts
  /\ \/ hook'.stdin.stop_hook_active
     \/ last_run.kind = "time" /\ now - last_run.t < 3

\* a step in which the Stop script prints its message after the call
StopDisplays ==
  /\ hook.pc = "calling"
  /\ hook.name = "stop"
  /\ op'.name = "hook_exit"

-----------------------------------------------------------------------------
(* A source asked for by name: every switch of the configuration, the gate  *)
(* open or shut, use_ollama given or left to the configuration.             *)

ExplicitSources == {"jw", "joke", "quote", "stoic"}

ExplicitConfigs ==
  {Cfg(TRUE, AllEvents(EventSetting(TRUE, p)), ollama, EvenWeights, << >>,
       jw, MaxCooldown, ext, emojis) :
     p \in {0, CertainProbability}, ollama \in BOOLEAN, jw \in BOOLEAN,
     ext \in BOOLEAN, emojis \in BOOLEAN}

ExplicitCalls ==
  {Call(ev, uo, src, uc) :
     ev \in Events, uo \in {"None", "True", "False"}, src \in ExplicitSources,
     uc \in BOOLEAN}

NextExplicit ==
  \/ Tick
  \/ HookExit
  \/ \E a \in ExplicitCalls : GenerateMessage(a, 0)

SpecExplicit == InitGen(ExplicitConfigs) /\ [][NextExplicit]_vars

\* a call that names its source, passes the gate and finds the source enabled
ExplicitEnabled ==
  /\ op.name = "generate_message"
  /\ gm.call.message_source \in ExplicitSources
  /\ gm.out.gate # "closed"
  /\ gm.call.use_config => ~SourceDisabled(gm.call.message_source)

\* the use_ollama value of the call: the argument, and where the caller left
\* it out the value generate_message puts in its place
CallUseOllama ==
  IF gm.call.use_ollama = "None"
    THEN (IF gm.call.use_config THEN config.ollama_enabled ELSE TRUE)
  ELSE gm.call.use_ollama = "True"

\* what the provider of the named source can return, non-empty, when invoked
\* with the call's event type and use_ollama value
ProviderContents ==
  {r.msg : r \in {q \in ProviderRuns(gm.call.message_source, gm.call.event_type,
                                     CallUseOllama, now) :
                    q.raised = "none" /\ Truthy(q.msg)}}

\* C35: a call of generate_message that names jw, joke, quote or stoic,
\* passes the gate and finds that source enabled invokes the provider of that
\* source and no other; when the provider returned non-empty content the
\* result is content that provider returns for the call's event type and
\* use_ollama value, after the configured formatting.
C35_ExplicitSource ==
  ExplicitEnabled =>
    /\ gm.out.provider = gm.call.message_source
    /\ (raised = "none" /\ gm.out.stage = "provider") =>
         /\ \E c \in ProviderContents :
              result = _apply_config_formatting(c, gm.call.use_config, config)
         /\ result.event \in {gm.call.event_type, ""}
         /\ result.enhanced => CallUseOllama

\* a quote asked for by name with use_ollama true came back enhanced and
\* formatted under a configuration that leaves ollama off
C35_Witness ==
  /\ ExplicitEnabled
  /\ gm.call.message_source = "quote"
  /\ gm.call.use_ollama = "True"
  /\ gm.call.use_config
  /\ ~config.ollama_enabled
  /\ gm.out.stage = "provider"
  /\ result.enhanced

-----------------------------------------------------------------------------
(* get without the cache, under SpecRequests *)

\* C36: a get with use_cache false sends a transport request, whatever the
\* cache holds for its key, and leaves the memory map and the cache files as
\* they were before the call.
C36_UncachedGet ==
  [][ (op'.name = "get" /\ ~op'.use_cache) =>
        (op'.sent /\ cache' = cache /\ disk' = disk) ]_vars

\* a get without the cache sent a request while the memory map, and in
\* persistent mode the cache files, held an unexpired entry of its key stored
\* by an earlier get
C36_Witness ==
  /\ op.name = "get"
  /\ ~op.use_cache
  /\ op.sent
  /\ persistent_cache
  /\ op.key \in DOMAIN cache
  /\ op.key \in DOMAIN disk
  /\ stored[op.key].at >= 0
  /\ now < stored[op.key].at + cache_ttl_minutes
  /\ result # None

-----------------------------------------------------------------------------
(* The scripture payload (lib/jw_daily_text.py, fetch_daily_text)           *)

\* an element of "items": a JSON object with its englishSymbol and
\* publicationTitle ("missing" for an absent key, "null" for JSON null), or a
\* JSON value that is no object
Item(kind, englishSymbol, publicationTitle) ==
  [kind |-> kind, englishSymbol |-> englishSymbol,
   publicationTitle |-> publicationTitle]

EsItem        == Item("dict", "es24", "Examining the Scriptures Daily-2024")
OtherItem     == Item("dict", "w", "The Watchtower")
TitleOnlyItem == Item("dict", "missing", "Examining the Scriptures Daily-2024")
NullSymbolItem == Item("dict", "null", "Examining the Scriptures Daily-2024")
NullTitleItem == Item("dict", "es24", "null")
StrItem       == Item("str", "missing", "missing")

\* a parsed response body: its JSON type and, for an object, its "items"
Document(kind, items, list) == [kind |-> kind, items |-> items, list |-> list]

\* the response bodies of the daily text service, by their text
JwBodies ==
  {"text", "[]", "{}", "{a}", "{items:[]}", "{items:null}", "{items:5}",
   "{items:[es]}", "{items:[other]}", "{items:[other,es]}",
   "{items:[es,other]}", "{items:[title]}", "{items:[other,title]}",
   "{items:['x']}", "{items:[other,'x']}", "{items:[es,'x']}",
   "{items:[nullsymbol]}", "{items:[nulltitle]}"}

\* response.json(), or response.text for a body that is no JSON
JwDocument(body) ==
  CASE body = None     -> Document("none", "missing", << >>)
    [] body = "text"   -> Document("str", "missing", << >>)
    [] body = "[]"     -> Document("list", "missing", << >>)
    [] body = "{}"     -> Document("empty_dict", "missing", << >>)
    [] body = "{a}"    -> Document("dict", "missing", << >>)
    [] body = "{items:[]}"   -> Document("dict", "list", << >>)
    [] body = "{items:null}" -> Document("dict", "null", << >>)
    [] body = "{items:5}"    -> Document("dict", "int", << >>)
    [] body = "{items:[es]}"    -> Document("dict", "list", <<EsItem>>)
    [] body = "{items:[other]}" -> Document("dict", "list", <<OtherItem>>)
    [] body = "{items:[other,es]}" -> Document("dict", "list", <<OtherItem, EsItem>>)
    [] body = "{items:[es,other]}" -> Document("dict", "list", <<EsItem, OtherItem>>)
    [] body = "{items:[title]}" -> Document("dict", "list", <<TitleOnlyItem>>)
    [] body = "{items:[other,title]}" ->
         Document("dict", "list", <<OtherItem, TitleOnlyItem>>)
    [] body = "{items:['x']}" -> Document("dict", "list", <<StrItem>>)
    [] body = "{items:[other,'x']}" -> Document("dict", "list", <<OtherItem, StrItem>>)
    [] body = "{items:[es,'x']}" -> Document("dict", "list", <<EsItem, StrItem>>)
    [] body = "{items:[nullsymbol]}" -> Document("dict", "list", <<NullSymbolItem>>)
    [] body = "{items:[nulltitle]}" -> Document("dict", "list", <<NullTitleItem>>)

\* str.startswith("es") and "Examining the Scriptures Daily" in str, on the
\* strings of the items above
StartsWithEs(s) == s = "es24"
NamesDailyText(s) == s = "Examining the Scriptures Daily-2024"

\* the entry fetch_daily_text builds: "parsed" from the matching item (lines
\* 89-126), "raw" from items[0] (lines 129-140), "none" for None
Entry(form, item) == [form |-> form, item |-> item]
NoEntry == Entry("none", 0)

DailyText(exc, entry) == [raised |-> exc, entry |-> entry]

\* the test of lines 85-86 on one item: "match", "no", or the exception
\* raised by item.get, by None.startswith or by "in None"
item_test(item) ==
  IF item.kind # "dict" THEN "AttributeError"
  ELSE IF item.englishSymbol = "null" THEN "AttributeError"
  ELSE IF ~StartsWithEs(item.englishSymbol) THEN "no"
  ELSE IF item.publicationTitle = "null" THEN "TypeError"
  ELSE IF NamesDailyText(item.publicationTitle) THEN "match"
  ELSE "no"

\* the loop of lines 83-126 from item i on, then lines 129-142
RECURSIVE scan_items(_, _)
scan_items(list, i) ==
  IF i > Len(list)
    THEN DailyText("none", IF list # << >> THEN Entry("raw", 1) ELSE NoEntry)
  ELSE LET t == item_test(list[i])
       IN IF t = "match" THEN DailyText("none", Entry("parsed", i))
          ELSE IF t = "no" THEN scan_items(list, i + 1)
          ELSE DailyText(t, NoEntry)

\* fetch_daily_text from line 75 on, on the data get returned
daily_text_entry(data) ==
  LET doc == JwDocument(data)
  IN IF doc.kind # "dict" THEN DailyText("none", NoEntry)
     ELSE IF doc.items = "missing" THEN DailyText("none", NoEntry)
     ELSE IF doc.items \in {"null", "int"} THEN DailyText("TypeError", NoEntry)
     ELSE scan_items(doc.list, 1)

JwTransportOutcomes ==
  [kind : {"json"}, data : (JwBodies \ {"text"}) \cup {None}] \cup
  [kind : {"text"}, data : {"text"}] \cup
  [kind : {"raise"}, data : {"Timeout"}]

\* JWDailyTextClient.fetch_daily_text(): self.api_client.get(url) through the
\* persistent cache, then the entry
FetchDailyText(out) ==
  LET o == get(cache, disk, JwKey, TRUE, out, now, cache_ttl_minutes, {},
               persistent_cache)
      r == IF o.raised # "none" THEN DailyText(o.raised, NoEntry)
           ELSE daily_text_entry(o.ret)
  IN /\ cache' = o.cache
     /\ disk' = o.disk
     /\ result' = r.entry
     /\ raised' = r.raised
     /\ op' = [name |-> "fetch_daily_text", data |-> o.ret, sent |-> o.sent,
               failed |-> o.sent /\ out.kind = "raise"]
     /\ UNCHANGED <<hookVars, now, persistent_cache, cache_ttl_minutes, stored,
                    rlVars, genVars>>

InitScripture == InitCache /\ persistent_cache

NextScripture ==
  \/ Tick
  \/ \E out \in JwTransportOutcomes : FetchDailyText(out)

SpecScripture == InitScripture /\ [][NextScripture]_vars

\* the items of the payload as the claim counts them: those of an object
\* whose "items" is a list
PayloadItems(data) ==
  LET doc == JwDocument(data)
  IN IF doc.kind = "dict" /\ doc.items = "list" THEN doc.list ELSE << >>

\* the items of the preferred publication: JSON objects whose symbol starts
\* with "es" and whose title names "Examining the Scriptures Daily"
PreferredAt(list) ==
  {i \in DOMAIN list :
     /\ list[i].kind = "dict"
     /\ StartsWithEs(list[i].englishSymbol)
     /\ NamesDailyText(list[i].publicationTitle)}

Least(S) == CHOOSE i \in S : \A j \in S : i <= j

\* the entry the claim names for a payload
SelectedEntry(data) ==
  LET list == PayloadItems(data)
  IN IF PreferredAt(list) # {} THEN Entry("parsed", Least(PreferredAt(list)))
     ELSE IF list # << >> THEN Entry("raw", 1)
     ELSE NoEntry

\* C37 as stated: fetch_daily_text returns the entry built from the first item
\* of the preferred publication when the payload has one, otherwise the entry
\* built from the first item of the payload, and None only when the request
\* failed, the payload is no object or it has no items; and it raises for no
\* payload.
C37_PayloadSelection ==
  op.name = "fetch_daily_text" =>
    /\ raised = "none"
    /\ result = SelectedEntry(op.data)

====
